---- MODULE Spec2Model ----
(***************************************************************************)
(* Model of pasta/base/annotate.py: the traversal recipes of BaseVisitor   *)
(* and the annotation driver AstAnnotator, run against a token cursor.     *)
(*                                                                         *)
(* Source text is a sequence of lexemes: " " is one blank, "\n" a line     *)
(* break, every other string one token.  A formatting attribute is the     *)
(* sequence of lexemes it recorded.  The recursion of the visitor is kept  *)
(* as an explicit continuation stack (stk) of pending slots.               *)
(***************************************************************************)
EXTENDS Integers, Sequences, FiniteSets, TLC

\* Bounds of the generated inputs.
MaxIndent == 2
MaxBlank == 1
MaxParens == 1

VARIABLES nodes, src, pos, hints, parens, stack, indent, indent_diff, stk,
          status, err, fmt, deps_src, is_elif, is_continued, code, calls,
          spans, edited, input

vars == <<nodes, src, pos, hints, parens, stack, indent, indent_diff, stk,
          status, err, fmt, deps_src, is_elif, is_continued, code, calls,
          spans, edited, input>>

-----------------------------------------------------------------------------
\* Generic helpers.

Rep(x, k) == [i \in 1..k |-> x]

Sp(k) == Rep(" ", k)

Nl(k) == Rep("\n", k)

MinOf(S) == CHOOSE x \in S : \A y \in S : x <= y

MaxOf(S) == CHOOSE x \in S : \A y \in S : x >= y

Slice(s, a, b) == [i \in 1..(b - a + 1) |-> s[a + i - 1]]

IsPrefix(p, s) == Len(p) <= Len(s) /\ \A i \in 1..Len(p) : p[i] = s[i]

RECURSIVE Flat(_)
Flat(ss) == IF ss = <<>> THEN <<>> ELSE Head(ss) \o Flat(Tail(ss))

EmptyF == [x \in {} |-> <<>>]

Put(f, k, v) == (k :> v) @@ f

-----------------------------------------------------------------------------
\* The token cursor (token_generator.TokenGenerator), over src and a
\* position p: the lexemes 1..p are consumed.  Position Len(src)+1 is the
\* tokenizer's ENDMARKER, a token with empty text; past it there is no token.

OpToks == {"(", ")", "[", "]", "{", "}", ",", ":", ".", "->", "=", "@", "*",
           "**", "-", ";"}

NumberToks == {"1", "2", "0x1"}

StringToks == {"'s'", "'t'"}

EndPos == Len(src) + 1

TokAt(j) == IF j \in 1..Len(src) THEN src[j] ELSE ""

TokType(j) ==
  IF j > Len(src) THEN "ENDMARKER"
  ELSE IF src[j] = "\n" THEN "NEWLINE"
  ELSE IF src[j] \in OpToks THEN "OP"
  ELSE IF src[j] \in NumberToks THEN "NUMBER"
  ELSE IF src[j] \in StringToks THEN "STRING"
  ELSE "NAME"

\* Index of the next token after p (blanks are not tokens); 0 when there is none.
peek(p) ==
  LET c == {j \in (p + 1)..Len(src) : src[j] # " "}
  IN IF c # {} THEN MinOf(c) ELSE IF p < EndPos THEN EndPos ELSE 0

\* 1-based line of lexeme j; a line break belongs to the line it ends.
LineOf(j) == 1 + Cardinality({k \in 1..(j - 1) : k <= Len(src) /\ src[k] = "\n"})

\* Line of the cursor's current location (tokens._loc[0]).
LocLine(p) == IF p = 0 THEN 1 ELSE LineOf(p)

NumLines == LineOf(EndPos) - (IF Len(src) > 0 /\ src[Len(src)] = "\n" THEN 1 ELSE 0)

\* First lexeme index of line l.
LineStart(l) == IF l = 1 THEN 1 ELSE 1 + MinOf({k \in 1..Len(src) : LineOf(k + 1) = l})

\* tokens.lines[l - 1]: the lexemes of line l, its line break included.
LineText(l) == LET ix == {k \in 1..Len(src) : LineOf(k) = l}
               IN IF ix = {} THEN <<>> ELSE Slice(src, MinOf(ix), MaxOf(ix))

\* End of the run of lexemes of set S that starts after p.
RunEnd(p, S) ==
  MaxOf({q \in p..Len(src) : \A k \in (p + 1)..q : src[k] \in S})

\* tokens.whitespace(max_lines): position after the whitespace consumed from
\* p.  max_lines is -1 for None (no cap), else at most that many line breaks.
whitespace(p, max_lines) ==
  IF p >= Len(src) THEN p
  ELSE IF max_lines = -1 THEN RunEnd(p, {" ", "\n"})
  ELSE LET q == RunEnd(p, {" "})
       IN IF max_lines > 0 /\ q < Len(src) /\ src[q + 1] = "\n" THEN q + 1 ELSE q

\* tokens.block_whitespace(indent): the blank lines that trail a block.
block_whitespace(p, ind) ==
  IF p >= Len(src) THEN p
  ELSE MaxOf({q \in p..RunEnd(p, {" ", "\n"}) : q = p \/ src[q] = "\n"})

\* tokens.next_name(): index of the next NAME token, not consumed; 0 if none.
next_name(p) ==
  LET c == {j \in (p + 1)..Len(src) : src[j] # " " /\ TokType(j) = "NAME"}
  IN IF c = {} THEN 0 ELSE MinOf(c)

\* tokens.scope(node) on entry: the redundant "(" tokens before an expression,
\* with the whitespace around them, are consumed; nothing if there is none.
open_scope(p) ==
  LET r == IF p >= Len(src) THEN p ELSE RunEnd(p, {" ", "("})
      k == Cardinality({j \in (p + 1)..r : src[j] = "("})
  IN [pos |-> IF k = 0 THEN p ELSE r, n |-> k]

\* tokens.scope(node) on exit: while the innermost open parenthesis belongs to
\* node, a following ")" closes it.
RECURSIVE close_scope(_, _, _)
close_scope(p, ps, node) ==
  IF ps # <<>> /\ ps[Len(ps)].node = node /\ p < Len(src)
     /\ TokAt(RunEnd(p, {" "}) + 1) = ")"
  THEN close_scope(RunEnd(p, {" "}) + 1, SubSeq(ps, 1, Len(ps) - 1), node)
  ELSE [pos |-> p, parens |-> ps]

\* The text of the parentheses open_scope consumed between p and r, one entry
\* per "(", the last one extended over the whitespace before the next token.
RECURSIVE paren_texts(_, _)
paren_texts(p, r) ==
  LET c == {j \in (p + 1)..r : src[j] = "("}
  IN IF c = {} THEN <<>>
     ELSE IF Cardinality(c) = 1 THEN <<Slice(src, p + 1, r)>>
     ELSE <<Slice(src, p + 1, MinOf(c))>> \o paren_texts(MinOf(c), r)

-----------------------------------------------------------------------------
\* Syntax nodes.  A tree is a sequence of node records, node 1 the root; a
\* child field holds a node index (0 for None) or a sequence of them.

Node0 ==
  [kind |-> "", lineno |-> 0, id |-> "", name |-> "", asname |-> "",
   module |-> <<>>, level |-> 0, n |-> 0, s |-> "", op |-> "", arg |-> "",
   test |-> 0, value |-> 0, context_expr |-> 0, optional_vars |-> 0,
   returns |-> 0, type |-> 0, annotation |-> 0, vararg |-> 0, kwarg |-> 0,
   args |-> <<>>, defaults |-> <<>>, body |-> <<>>, orelse |-> <<>>,
   handlers |-> <<>>, finalbody |-> <<>>, names |-> <<>>, elts |-> <<>>,
   values |-> <<>>, bases |-> <<>>, decorator_list |-> <<>>,
   col_offset |-> 0, func |-> 0, keywords |-> <<>>, starargs |-> 0, kwargs |-> 0,
   slice |-> 0, dims |-> <<>>, lower |-> 0, upper |-> 0, step |-> 0,
   target |-> 0, iter |-> 0]

Kind(n) == nodes[n].kind

\* ast_constants.NODE_TYPE_TO_TOKENS[type(op)][0] for the boolean operators.
NODE_TYPE_TO_TOKENS(op) == IF op = "And" THEN "and" ELSE "or"

-----------------------------------------------------------------------------
\* Slots.  A recipe is a sequence of slots; vals of an attr slot are literal
\* tokens or one of the parsers below.

WS == "<ws>"

WS_ONELINE == "<ws_oneline>"

WS_0 == "<ws max_lines=0>"

NUMBER == "<next_of_type NUMBER>"

STR == "<tokens.str>"

Op0 ==
  [op |-> "", n |-> 0, name |-> "", vals |-> <<>>, deps |-> <<>>,
   default |-> <<>>, prev_indent |-> <<>>, prev_indent_diff |-> <<>>]

V(n) == [Op0 EXCEPT !.op = "visit", !.n = n]

A(n, name, vals, deps, default) ==
  [Op0 EXCEPT !.op = "attr", !.n = n, !.name = name, !.vals = vals,
              !.deps = deps, !.default = default]

T(token_val) == [Op0 EXCEPT !.op = "token", !.name = token_val]

OT(n, name, token_val) ==
  [Op0 EXCEPT !.op = "optional_token", !.n = n, !.name = name,
              !.vals = <<token_val>>]

Ind(n, children_attr) == [Op0 EXCEPT !.op = "indented", !.n = n, !.name = children_attr]

K(op, n) == [Op0 EXCEPT !.op = op, !.n = n]

Visits(children) == [i \in 1..Len(children) |-> V(children[i])]

OPEN_BLOCK(n) == A(n, "open_block", <<WS, ":", WS_ONELINE>>, <<>>, <<":", "\n">>)

\* The decorators _gen_wrapper is applied with.
Wrapper(kind) ==
  IF kind \in {"Name", "Num", "Str", "BoolOp", "List", "Call", "Subscript"}
    THEN [scope |-> TRUE, prefix |-> TRUE, suffix |-> TRUE, max_suffix_lines |-> 0]
  ELSE IF kind \in {"arguments", "arg", "keyword"}
    THEN [scope |-> FALSE, prefix |-> TRUE, suffix |-> TRUE, max_suffix_lines |-> -1]
  ELSE IF kind \in {"alias"}
    THEN [scope |-> FALSE, prefix |-> TRUE, suffix |-> FALSE, max_suffix_lines |-> -1]
  ELSE IF kind \in {"Pass", "Expr", "Global", "Nonlocal", "ImportFrom"}
    THEN [scope |-> FALSE, prefix |-> TRUE, suffix |-> TRUE, max_suffix_lines |-> 1]
  ELSE [scope |-> FALSE, prefix |-> TRUE, suffix |-> FALSE, max_suffix_lines |-> -1]

suffix(n, max_lines) ==
  A(n, "suffix",
    <<IF max_lines = -1 THEN WS ELSE IF max_lines = 1 THEN WS_ONELINE ELSE WS_0>>,
    <<>>, <<>>)

prefix(n) == A(n, "prefix", <<WS>>, <<>>, <<>>)

-----------------------------------------------------------------------------
\* The Traversal Order Table: BaseVisitor.visit_<Kind>, as the slots the
\* method runs between the wrapper's prefix and suffix.  A decision the method
\* takes on the cursor after a child is a continuation slot (K).

visit_Module(n) ==
  Visits(nodes[n].body) \o <<A(n, "suffix", <<WS>>, <<>>, <<>>)>>

visit_If(n) ==
  LET tok == IF n \in is_elif THEN "elif" ELSE "if"
  IN <<A(n, "open_if", <<tok, WS>>, <<>>, <<tok, " ">>),
       V(nodes[n].test),
       OPEN_BLOCK(n),
       Ind(n, "body"),
       K("If_orelse", n)>>

visit_While(n) ==
  <<A(n, "while_keyword", <<"while", WS>>, <<>>, <<"while", " ">>),
    V(nodes[n].test),
    OPEN_BLOCK(n),
    Ind(n, "body")>>
  \o (IF nodes[n].orelse # <<>>
        THEN <<A(n, "else", <<WS, "else", WS, ":", WS_ONELINE>>, <<>>, <<":", "\n">>),
               Ind(n, "orelse")>>
        ELSE <<>>)

visit_For(n) ==
  <<A(n, "for_keyword", <<"for", WS>>, <<>>, <<"for", " ">>),
    V(nodes[n].target),
    A(n, "for_in", <<WS, "in", WS>>, <<>>, <<" ", "in", " ">>),
    V(nodes[n].iter),
    OPEN_BLOCK(n),
    Ind(n, "body")>>
  \o (IF nodes[n].orelse # <<>>
        THEN <<A(n, "else", <<WS, "else", WS, ":", WS_ONELINE>>, <<>>, <<":", "\n">>),
               Ind(n, "orelse")>>
        ELSE <<>>)

visit_With(n) ==
  (IF n \notin is_continued
     THEN <<A(n, "with", <<"with", WS>>, <<>>, <<"with", " ">>)>> ELSE <<>>)
  \o <<V(nodes[n].context_expr)>>
  \o (IF nodes[n].optional_vars # 0
        THEN <<A(n, "with_as", <<WS, "as", WS>>, <<>>, <<" ", "as", " ">>),
               V(nodes[n].optional_vars)>>
        ELSE <<>>)
  \o <<K("With_body", n)>>

visit_Try(n) ==
  <<A(n, "open_try", <<WS, "try", WS, ":", WS_ONELINE>>, <<>>, <<"try", ":", "\n">>)>>
  \o Visits(nodes[n].body)
  \o Visits(nodes[n].handlers)
  \o (IF nodes[n].orelse # <<>>
        THEN <<A(n, "open_else", <<WS, "else", WS, ":", WS_ONELINE>>, <<>>,
                 <<"else", ":", "\n">>),
               Ind(n, "orelse")>>
        ELSE <<>>)
  \o (IF nodes[n].finalbody # <<>>
        THEN <<A(n, "open_finally", <<WS, "finally", WS, ":", WS_ONELINE>>, <<>>,
                 <<"finally", ":", "\n">>),
               Ind(n, "finalbody")>>
        ELSE <<>>)

visit_ExceptHandler(n) ==
  <<T("except")>>
  \o (IF nodes[n].type # 0 THEN <<V(nodes[n].type)>> ELSE <<>>)
  \o (IF nodes[n].type # 0 /\ nodes[n].name # ""
        THEN <<A(n, "as", <<WS, "as", WS>>, <<>>, <<" ", "as", " ">>)>> ELSE <<>>)
  \o (IF nodes[n].name # "" THEN <<T(nodes[n].name)>> ELSE <<>>)
  \o <<OPEN_BLOCK(n), Ind(n, "body")>>

decorators(n, first_attr, first_vals) ==
  Flat([i \in 1..Len(nodes[n].decorator_list) |->
          <<A(n, first_attr \o ToString(i - 1), first_vals, <<>>, <<"@">>),
            V(nodes[n].decorator_list[i]),
            A(n, "decorator_suffix_" \o ToString(i - 1),
              IF Kind(n) = "ClassDef" THEN <<WS>> ELSE <<WS_ONELINE>>, <<>>, <<"\n">>)>>])

visit_ClassDef(n) ==
  LET bases == nodes[n].bases
  IN decorators(n, "decorator_prefix_", <<WS, "@">>)
     \o <<A(n, "class_def", <<"class", WS, nodes[n].name, WS>>, <<"name">>,
            <<"class", " ", nodes[n].name>>)>>
     \o (IF bases # <<>> THEN <<T("(")>> ELSE <<OT(n, "open_bases", "(")>>)
     \o Flat([i \in 1..Len(bases) |->
                <<V(bases[i]), A(n, "base_suffix_" \o ToString(i - 1), <<WS>>, <<>>, <<>>)>>
                \o (IF bases[i] # bases[Len(bases)] THEN <<T(",")>> ELSE <<>>)])
     \o (IF bases # <<>> THEN <<OT(n, "bases_extracomma", ","), T(")")>>
                         ELSE <<OT(n, "close_bases", ")")>>)
     \o <<OPEN_BLOCK(n), Ind(n, "body")>>

visit_FunctionDef(n) ==
  decorators(n, "decorator_symbol_", <<WS, "@", WS>>)
  \o <<A(n, "function_def", <<WS, "def", WS, nodes[n].name, WS, "(">>, <<"name">>,
         <<"def", " ", nodes[n].name, "(">>),
       V(nodes[n].args),
       A(n, "function_def_close", <<WS, ")", WS>>, <<>>, <<")">>)>>
  \o (IF nodes[n].returns # 0
        THEN <<A(n, "returns_prefix", <<WS, "->", WS>>, <<"returns">>, <<" ", "->", " ">>),
               V(nodes[n].returns)>>
        ELSE <<>>)
  \o <<OPEN_BLOCK(n), Ind(n, "body")>>

visit_Expr(n) == <<V(nodes[n].value)>>

visit_Pass(n) == <<T("pass")>>

visit_Global(n) ==
  LET names == nodes[n].names
      identifiers ==
        Flat([i \in 1..Len(names) |->
                (IF names[i] # names[1] THEN <<WS, ",">> ELSE <<>>) \o <<WS, names[i]>>])
  IN <<T("global"), A(n, "names", identifiers, <<>>, <<>>)>>

visit_Nonlocal(n) ==
  LET names == nodes[n].names
      identifiers ==
        Flat([i \in 1..Len(names) |->
                (IF names[i] # names[1] THEN <<WS, ",">> ELSE <<>>) \o <<WS, names[i]>>])
  IN <<T("nonlocal"), A(n, "names", identifiers, <<>>, <<>>)>>

\* The pattern of a dotted path whose parts are given (node.module.split('.')).
dotted(parts) ==
  Flat([i \in 1..Len(parts) |->
          IF i < Len(parts) THEN <<WS, parts[i], WS, ".">> ELSE <<WS, parts[i]>>])

\* The path as one string is written part by part, a "." between the parts.
dotted_default(parts) ==
  Flat([i \in 1..Len(parts) |->
          IF i < Len(parts) THEN <<parts[i], ".">> ELSE <<parts[i]>>])

visit_ImportFrom(n) ==
  LET names == nodes[n].names
      module_pattern ==
        Flat(Rep(<<".", WS>>, nodes[n].level))
        \o (IF nodes[n].module # <<>> THEN dotted(nodes[n].module) ELSE <<>>)
  IN <<T("from"),
       A(n, "module_prefix", <<WS>>, <<>>, <<" ">>),
       A(n, "module", module_pattern, <<"level", "module">>,
         Rep(".", nodes[n].level) \o dotted_default(nodes[n].module)),
       A(n, "module_suffix", <<WS>>, <<>>, <<" ">>),
       T("import")>>
     \o Flat([i \in 1..Len(names) |->
                <<V(names[i])>>
                \o (IF names[i] # names[Len(names)] THEN <<T(",")>> ELSE <<>>)])

visit_alias(n) ==
  <<A(n, "name", dotted(nodes[n].name), <<"name">>, dotted_default(nodes[n].name))>>
  \o (IF nodes[n].asname # ""
        THEN <<A(n, "asname", <<WS, "as", WS>>, <<>>, <<" ", "as", " ">>),
               T(nodes[n].asname)>>
        ELSE <<>>)

visit_BoolOp(n) ==
  LET op_symbol == NODE_TYPE_TO_TOKENS(nodes[n].op)
      values == nodes[n].values
  IN Flat([i \in 1..Len(values) |->
             <<V(values[i])>>
             \o (IF values[i] # values[Len(values)]
                   THEN <<A(n, "op_" \o ToString(i - 1), <<WS, op_symbol, WS>>, <<"op">>,
                            <<" ", op_symbol, " ">>)>>
                   ELSE <<>>)])

visit_List(n) ==
  LET elts == nodes[n].elts
  IN <<A(n, "list_open", <<"[", WS>>, <<>>, <<"[">>)>>
     \o Flat([i \in 1..Len(elts) |->
                <<V(elts[i])>>
                \o (IF elts[i] # elts[Len(elts)]
                      THEN <<A(n, "comma_" \o ToString(i - 1), <<WS, ",", WS>>, <<>>,
                               <<",", " ">>)>>
                      ELSE <<>>)])
     \o (IF elts # <<>> THEN <<OT(n, "extracomma", ",")>> ELSE <<>>)
     \o <<A(n, "list_close", <<WS, "]">>, <<>>, <<"]">>)>>

visit_Name(n) == <<T(nodes[n].id)>>

visit_Num(n) ==
  <<A(n, "content", (IF nodes[n].n < 0 THEN <<"-">> ELSE <<>>) \o <<NUMBER>>, <<"n">>,
      <<ToString(nodes[n].n)>>)>>

visit_Str(n) == <<A(n, "content", <<STR>>, <<"s">>, <<nodes[n].s>>)>>

visit_arg(n) ==
  <<T(nodes[n].arg)>>
  \o (IF nodes[n].annotation # 0
        THEN <<A(n, "annotation_prefix", <<WS, ":", WS>>, <<>>, <<":", " ">>),
               V(nodes[n].annotation)>>
        ELSE <<>>)

\* Python 3 arguments: vararg and kwarg are arg nodes (0 for None).
visit_arguments(n) ==
  LET args == nodes[n].args
      defaults == nodes[n].defaults
      has_vararg == IF nodes[n].vararg # 0 THEN 1 ELSE 0
      has_kwarg == IF nodes[n].kwarg # 0 THEN 1 ELSE 0
      total_args == Len(args) + has_vararg + has_kwarg
      n_pos == IF defaults # <<>>
                 THEN (IF Len(args) > Len(defaults) THEN Len(args) - Len(defaults) ELSE 0)
                 ELSE Len(args)
      positional == SubSeq(args, 1, n_pos)
      keyword == IF defaults # <<>> THEN SubSeq(args, n_pos + 1, Len(args)) ELSE args
      n_kw == IF Len(keyword) < Len(defaults) THEN Len(keyword) ELSE Len(defaults)
      comma(arg_i) ==
        IF arg_i < total_args
          THEN <<A(n, "comma_" \o ToString(arg_i), <<WS, ",", WS>>, <<>>, <<",", " ">>)>>
          ELSE <<>>
  IN Flat([i \in 1..n_pos |-> <<V(positional[i])>> \o comma(i)])
     \o Flat([i \in 1..n_kw |->
                <<V(keyword[i]),
                  A(n, "default_" \o ToString(i - 1), <<WS, "=", WS>>, <<>>, <<"=">>),
                  V(defaults[i])>>
                \o comma(n_pos + i)])
     \o (IF nodes[n].vararg # 0
           THEN <<A(n, "vararg_prefix", <<WS, "*", WS>>, <<>>, <<"*">>), V(nodes[n].vararg)>>
                \o (IF n_pos + n_kw + 1 < total_args THEN <<T(",")>> ELSE <<>>)
           ELSE <<>>)
     \o (IF nodes[n].kwarg # 0
           THEN <<A(n, "kwarg_prefix", <<WS, "**", WS>>, <<>>, <<"**">>), V(nodes[n].kwarg)>>
           ELSE <<>>)
     \o (IF positional # <<>> \/ keyword # <<>> \/ nodes[n].vararg # 0 \/ nodes[n].kwarg # 0
           THEN <<OT(n, "extracomma", ",")>> ELSE <<>>)

\* a is located after b in the source (lineno, col_offset).
LocatedAfter(a, b) ==
  \/ nodes[a].lineno > nodes[b].lineno
  \/ nodes[a].lineno = nodes[b].lineno /\ nodes[a].col_offset > nodes[b].col_offset

\* ast_utils.find_starargs: the 0-based index of *starargs among the items
\* of a call in source order, -1 when the call has none.
find_starargs(n) ==
  LET keywords == nodes[n].keywords
      starargs == nodes[n].starargs
      later == {i \in 1..Len(keywords) : LocatedAfter(nodes[keywords[i]].value, starargs)}
  IN IF starargs = 0 THEN -1
     ELSE IF later = {} THEN Len(nodes[n].args) + Len(keywords)
     ELSE Len(nodes[n].args) + MinOf(later) - 1

\* Variant: a separator is expected after every item, the last included.
visit_Call_comma_after_each(n) ==
  LET args == nodes[n].args
      keywords == nodes[n].keywords
      starargs == nodes[n].starargs
      kwargs == nodes[n].kwargs
      num_items == Len(args) + Len(keywords) + (IF starargs # 0 THEN 1 ELSE 0)
                   + (IF kwargs # 0 THEN 1 ELSE 0)
      starargs_idx == find_starargs(n)
      kw_end == Len(args) + Len(keywords) + (IF starargs # 0 THEN 1 ELSE 0)
      comma(i) == IF i < num_items
                    THEN <<A(n, "comma_" \o ToString(i), <<WS, ",", WS>>, <<>>, <<",", " ">>)>>
                    ELSE <<>>
      kw_idx(i) == (i - Len(args))
                   - (IF starargs_idx >= Len(args) /\ starargs_idx < i THEN 1 ELSE 0)
  IN <<V(nodes[n].func), A(n, "open_call", <<WS, "(", WS>>, <<>>, <<"(">>)>>
     \o Flat([i \in 1..Len(args) |-> <<V(args[i])>> \o comma(i - 1)])
     \o Flat([x \in 1..(kw_end - Len(args)) |->
                LET i == Len(args) + x - 1
                IN (IF i = starargs_idx
                      THEN <<A(n, "starargs_prefix", <<WS, "*">>, <<>>, <<"*">>), V(starargs)>>
                      ELSE <<V(keywords[kw_idx(i) + 1])>>)
                   \o comma(i)])
     \o (IF kwargs # 0
           THEN <<A(n, "kwargs_prefix", <<WS, "**", WS>>, <<>>, <<"**">>), V(kwargs)>>
           ELSE <<>>)
     \o <<A(n, "arguments_suffix", <<WS>>, <<>>, <<>>)>>
     \o (IF num_items > 0 THEN <<OT(n, "extracomma", ",")>> ELSE <<>>)
     \o <<A(n, "close_call", <<WS, ")">>, <<>>, <<")">>)>>

visit_Call(n) ==
  LET args == nodes[n].args
      keywords == nodes[n].keywords
      starargs == nodes[n].starargs
      kwargs == nodes[n].kwargs
      num_items == Len(args) + Len(keywords) + (IF starargs # 0 THEN 1 ELSE 0)
                   + (IF kwargs # 0 THEN 1 ELSE 0)
      starargs_idx == find_starargs(n)
      kw_end == Len(args) + Len(keywords) + (IF starargs # 0 THEN 1 ELSE 0)
      comma(i) == IF i < num_items - 1
                    THEN <<A(n, "comma_" \o ToString(i), <<WS, ",", WS>>, <<>>, <<",", " ">>)>>
                    ELSE <<>>
      kw_idx(i) == (i - Len(args))
                   - (IF starargs_idx >= Len(args) /\ starargs_idx < i THEN 1 ELSE 0)
  IN <<V(nodes[n].func), A(n, "open_call", <<WS, "(", WS>>, <<>>, <<"(">>)>>
     \o Flat([i \in 1..Len(args) |-> <<V(args[i])>> \o comma(i - 1)])
     \o Flat([x \in 1..(kw_end - Len(args)) |->
                LET i == Len(args) + x - 1
                IN (IF i = starargs_idx
                      THEN <<A(n, "starargs_prefix", <<WS, "*">>, <<>>, <<"*">>), V(starargs)>>
                      ELSE <<V(keywords[kw_idx(i) + 1])>>)
                   \o comma(i)])
     \o (IF kwargs # 0
           THEN <<A(n, "kwargs_prefix", <<WS, "**", WS>>, <<>>, <<"**">>), V(kwargs)>>
           ELSE <<>>)
     \o <<A(n, "arguments_suffix", <<WS>>, <<>>, <<>>)>>
     \o (IF num_items > 0 THEN <<OT(n, "extracomma", ",")>> ELSE <<>>)
     \o <<A(n, "close_call", <<WS, ")">>, <<>>, <<")">>)>>

visit_keyword(n) ==
  <<T(nodes[n].arg), A(n, "eq", <<WS, "=">>, <<>>, <<"=">>), V(nodes[n].value)>>

visit_Subscript(n) == <<V(nodes[n].value), V(nodes[n].slice)>>

\* The two tests of self._stack in visit_Index and visit_Slice are taken when
\* they are reached (slots index_open and index_close).
visit_Index(n) == <<K("index_open", n), V(nodes[n].value), K("index_close", n)>>

visit_ExtSlice(n) ==
  LET dims == nodes[n].dims
  IN <<T("[")>>
     \o Flat([i \in 1..Len(dims) |->
                <<V(dims[i])>>
                \o (IF dims[i] # dims[Len(dims)]
                      THEN <<A(n, "dim_sep_" \o ToString(i - 1), <<WS, ",", WS>>, <<>>,
                               <<",", " ">>)>>
                      ELSE <<>>)])
     \o <<T("]")>>

visit_Slice(n) ==
  <<K("index_open", n)>>
  \o (IF nodes[n].lower # 0 THEN <<V(nodes[n].lower)>> ELSE <<>>)
  \o <<A(n, "lowerspace", <<WS, ":", WS>>, <<>>, <<>>)>>
  \o (IF nodes[n].upper # 0 THEN <<V(nodes[n].upper)>> ELSE <<>>)
  \o (IF nodes[n].step # 0
        THEN <<A(n, "stepspace", <<WS, ":", WS>>, <<>>, <<>>), V(nodes[n].step)>>
        ELSE <<>>)
  \o <<K("index_close", n)>>

\* ast.NodeVisitor.visit: dispatch on the node's class.
Recipe(n) ==
  CASE Kind(n) = "Module" -> visit_Module(n)
    [] Kind(n) = "If" -> visit_If(n)
    [] Kind(n) = "While" -> visit_While(n)
    [] Kind(n) = "For" -> visit_For(n)
    [] Kind(n) = "With" -> visit_With(n)
    [] Kind(n) = "Try" -> visit_Try(n)
    [] Kind(n) = "ExceptHandler" -> visit_ExceptHandler(n)
    [] Kind(n) = "ClassDef" -> visit_ClassDef(n)
    [] Kind(n) = "FunctionDef" -> visit_FunctionDef(n)
    [] Kind(n) = "Expr" -> visit_Expr(n)
    [] Kind(n) = "Pass" -> visit_Pass(n)
    [] Kind(n) = "Global" -> visit_Global(n)
    [] Kind(n) = "Nonlocal" -> visit_Nonlocal(n)
    [] Kind(n) = "Call" -> visit_Call(n)
    [] Kind(n) = "keyword" -> visit_keyword(n)
    [] Kind(n) = "Subscript" -> visit_Subscript(n)
    [] Kind(n) = "Index" -> visit_Index(n)
    [] Kind(n) = "ExtSlice" -> visit_ExtSlice(n)
    [] Kind(n) = "Slice" -> visit_Slice(n)
    [] Kind(n) = "ImportFrom" -> visit_ImportFrom(n)
    [] Kind(n) = "alias" -> visit_alias(n)
    [] Kind(n) = "BoolOp" -> visit_BoolOp(n)
    [] Kind(n) = "List" -> visit_List(n)
    [] Kind(n) = "Name" -> visit_Name(n)
    [] Kind(n) = "Num" -> visit_Num(n)
    [] Kind(n) = "Str" -> visit_Str(n)
    [] Kind(n) = "arguments" -> visit_arguments(n)
    [] Kind(n) = "arg" -> visit_arg(n)

\* Variant: the prefix is parsed before the scope is entered.
wrapped_prefix_first(n) ==
  LET w == Wrapper(Kind(n))
  IN (IF w.prefix THEN <<prefix(n)>> ELSE <<>>)
     \o (IF w.scope THEN <<K("scope_enter", n)>> ELSE <<>>)
     \o Recipe(n)
     \o (IF w.suffix THEN <<suffix(n, w.max_suffix_lines)>> ELSE <<>>)
     \o (IF w.scope THEN <<K("scope_exit", n)>> ELSE <<>>)

\* _gen_wrapper: scope, prefix, the method, suffix, in that order.
wrapped(n) ==
  LET w == Wrapper(Kind(n))
  IN (IF w.scope THEN <<K("scope_enter", n)>> ELSE <<>>)
     \o (IF w.prefix THEN <<prefix(n)>> ELSE <<>>)
     \o Recipe(n)
     \o (IF w.suffix THEN <<suffix(n, w.max_suffix_lines)>> ELSE <<>>)
     \o (IF w.scope THEN <<K("scope_exit", n)>> ELSE <<>>)

-----------------------------------------------------------------------------
\* The annotation driver's primitives (AstAnnotator).

NoErr == [msg |-> "", expected |-> "", found |-> "", line |-> 0, linetext |-> <<>>]

\* The exceptions AstAnnotator.visit turns into AnnotationError.
visit_except(exc) ==
  IF exc \in {"TypeError", "ValueError", "IndexError", "KeyError"}
    THEN "AnnotationError" ELSE exc

\* token.src in '({[' and token.src in ')}]' are substring tests.
IsOpen(tok) == tok \in {"", "(", "{", "[", "({", "{[", "({["}

\* Variant: only the round bracket counts as closing.
IsClose_round_only(tok) == tok = ")"

IsClose(tok) == tok \in {"", ")", "}", "]", ")}", "}]", ")}]"}

\* The running state of the cursor while the parts of one slot are parsed.
St0 ==
  [pos |-> pos, text |-> <<>>, hints |-> hints, hint_open |-> calls.hint_open,
   hint_closed |-> calls.hint_closed, exc |-> "", err |-> NoErr]

Fail(st, exc, msg) == [st EXCEPT !.exc = exc, !.err = [NoErr EXCEPT !.msg = msg]]

\* Variant: the reported line is counted from zero.
token_line_from_zero(token_val, st) ==
  LET j == peek(st.pos)
  IN IF j = 0 THEN Fail(st, "AttributeError", "'NoneType' object has no attribute 'src'")
     ELSE IF TokAt(j) # token_val
       THEN [st EXCEPT !.pos = j, !.exc = "AnnotationError",
                       !.err = [msg |-> "Expected %r but found %r\nline %d: %s",
                                expected |-> token_val, found |-> TokAt(j),
                                line |-> LineOf(j) - 1, linetext |-> LineText(LineOf(j))]]
     ELSE [st EXCEPT !.pos = j, !.text = @ \o <<TokAt(j)>>]

\* AstAnnotator.token: the next token must have exactly the given text.
token(token_val, st) ==
  LET j == peek(st.pos)
  IN IF j = 0 THEN Fail(st, "AttributeError", "'NoneType' object has no attribute 'src'")
     ELSE IF TokAt(j) # token_val
       THEN [st EXCEPT !.pos = j, !.exc = "AnnotationError",
                       !.err = [msg |-> "Expected %r but found %r\nline %d: %s",
                                expected |-> token_val, found |-> TokAt(j),
                                line |-> LineOf(j), linetext |-> LineText(LineOf(j))]]
     ELSE IF IsOpen(TokAt(j))
       THEN [st EXCEPT !.pos = j, !.text = @ \o <<TokAt(j)>>, !.hints = @ + 1,
                       !.hint_open = @ + 1]
     ELSE IF IsClose(TokAt(j))
       THEN IF st.hints = 0
              THEN Fail([st EXCEPT !.pos = j, !.hint_closed = @ + 1], "ValueError",
                        "Hint value negative")
              ELSE [st EXCEPT !.pos = j, !.text = @ \o <<TokAt(j)>>, !.hints = @ - 1,
                              !.hint_closed = @ + 1]
     ELSE [st EXCEPT !.pos = j, !.text = @ \o <<TokAt(j)>>]

\* AstAnnotator.ws.
ws(max_lines, st) ==
  LET q == whitespace(st.pos, max_lines)
  IN [st EXCEPT !.pos = q, !.text = @ \o Slice(src, st.pos + 1, q)]

\* tokens.next_of_type(NUMBER).src and tokens.str.
literal(type, st) ==
  LET j == peek(st.pos)
  IN IF j = 0 THEN Fail(st, "AttributeError", "'NoneType' object has no attribute 'type'")
     ELSE IF TokType(j) # type
       THEN Fail([st EXCEPT !.pos = j], "ValueError", "Expected a literal")
     ELSE [st EXCEPT !.pos = j, !.text = @ \o <<TokAt(j)>>]

\* One element of attr_vals: a string is a token to match, anything else a parser.
attr_val(v, st) ==
  IF v = WS THEN ws(-1, st)
  ELSE IF v = WS_ONELINE THEN ws(1, st)
  ELSE IF v = WS_0 THEN ws(0, st)
  ELSE IF v = NUMBER THEN literal("NUMBER", st)
  ELSE IF v = STR THEN literal("STRING", st)
  ELSE token(v, st)

RECURSIVE attr_parts(_, _)
attr_parts(attr_vals, st) ==
  IF attr_vals = <<>> \/ st.exc # "" THEN st
  ELSE attr_parts(Tail(attr_vals), attr_val(Head(attr_vals), st))

\* ast_utils.setprop / prop / appendprop on the formatting store f.
prop(f, n, name) == IF name \in DOMAIN f[n] THEN f[n][name] ELSE <<>>

setprop(f, n, name, value) == [f EXCEPT ![n] = Put(@, name, value)]

appendprop(f, n, name, value) == setprop(f, n, name, prop(f, n, name) \o value)

\* Variant: only the first dependency is recorded.
snapshot_first_only(d, n, deps) ==
  IF deps = <<>> THEN d
  ELSE [d EXCEPT ![n] = (deps[1] \o "__src" :> nodes[n][deps[1]]) @@ @]

\* The dependency snapshot attr takes before it parses: dep + '__src'.
snapshot(d, n, deps) ==
  [d EXCEPT ![n] = [k \in {deps[i] \o "__src" : i \in 1..Len(deps)} |->
                      LET i == CHOOSE i \in 1..Len(deps) : deps[i] \o "__src" = k
                      IN nodes[n][deps[i]]] @@ @]

\* Variant: the upcoming token is not looked at.
check_is_elif_no_lookahead(node, p) == [exc |-> "", val |-> Kind(node) = "If"]

\* AstAnnotator.check_is_elif.
check_is_elif(node, p) ==
  LET next_tok == next_name(p)
  IN IF Kind(node) # "If" THEN [exc |-> "", val |-> FALSE]
     ELSE IF next_tok = 0 THEN [exc |-> "AttributeError", val |-> FALSE]
     ELSE [exc |-> "", val |-> src[next_tok] = "elif"]

\* Variant: the upcoming token is not looked at.
check_is_continued_with_no_lookahead(node, p) == [exc |-> "", val |-> Kind(node) = "With"]

\* AstAnnotator.check_is_continued_with.
check_is_continued_with(node, p) ==
  IF Kind(node) # "With" THEN [exc |-> "", val |-> FALSE]
  ELSE IF peek(p) = 0 THEN [exc |-> "AttributeError", val |-> FALSE]
  ELSE [exc |-> "", val |-> TokAt(peek(p)) = ","]

-----------------------------------------------------------------------------
\* The annotation pass.  stk holds the slots still to run, the next one first;
\* status is "running" until annotate returns ("ok") or raises.

Running == status = "running" /\ stk # <<>>

Top == Head(stk)

cursor == <<pos, hints, parens>>

tree == <<nodes, src, input, edited>>

marks == <<is_elif, is_continued>>

Raise(exc, e) ==
  /\ status' = visit_except(exc)
  /\ err' = e

\* The calls made so far, in order (calls.log), with one more.
Logged(op, n, name) ==
  [calls EXCEPT !.log = Append(@, [op |-> op, n |-> n, name |-> name])]

\* AstAnnotator.visit and BaseVisitor.visit, up to the dispatch.
Visit ==
  /\ Running /\ Top.op = "visit"
  /\ LET n == Top.n
     IN /\ fmt' = setprop(setprop(fmt, n, "indent", indent), n, "indent_diff", indent_diff)
        /\ stack' = Append(stack, n)
        /\ stk' = wrapped(n) \o <<K("leave", n)>> \o Tail(stk)
        /\ calls' = Logged("visit", n, "")
  /\ UNCHANGED <<tree, cursor, indent, indent_diff, status, err, deps_src, marks,
                 code, spans>>

\* BaseVisitor.visit after the dispatch: assert node is self._stack.pop().
Leave ==
  /\ Running /\ Top.op = "leave"
  /\ stack # <<>> /\ stack[Len(stack)] = Top.n
  /\ stack' = SubSeq(stack, 1, Len(stack) - 1)
  /\ stk' = Tail(stk)
  /\ calls' = Logged("leave", Top.n, "")
  /\ UNCHANGED <<tree, cursor, indent, indent_diff, status, err, fmt, deps_src,
                 marks, code, spans>>

\* AstAnnotator.scope on entry of the with block of _gen_wrapper.
ScopeEnter ==
  /\ Running /\ Top.op = "scope_enter"
  /\ LET n == Top.n
         r == open_scope(pos)
         texts == paren_texts(pos, r.pos)
     IN /\ pos' = r.pos
        /\ parens' = parens \o [i \in 1..Len(texts) |-> [node |-> n, text |-> texts[i]]]
        /\ code' = code \o Slice(src, pos + 1, r.pos)
  /\ calls' = [Logged("scope_enter", Top.n, "") EXCEPT !.scope_in = @ + 1]
  /\ stk' = Tail(stk)
  /\ UNCHANGED <<tree, hints, stack, indent, indent_diff, status, err, fmt,
                 deps_src, marks, spans>>

\* AstAnnotator.scope on exit: the closed parentheses go to the node's prefix
\* and suffix.
ScopeExit ==
  /\ Running /\ Top.op = "scope_exit"
  /\ LET n == Top.n
         r == close_scope(pos, parens, n)
         closed == SubSeq(parens, Len(r.parens) + 1, Len(parens))
         opened == Flat([i \in 1..Len(closed) |-> closed[i].text])
     IN /\ pos' = r.pos
        /\ parens' = r.parens
        /\ fmt' = IF closed = <<>> THEN fmt
                  ELSE setprop(setprop(fmt, n, "prefix", opened \o prop(fmt, n, "prefix")),
                               n, "suffix",
                               prop(fmt, n, "suffix") \o Slice(src, pos + 1, r.pos))
        /\ code' = code \o Slice(src, pos + 1, r.pos)
  /\ calls' = [Logged("scope_exit", Top.n, "") EXCEPT !.scope_out = @ + 1]
  /\ stk' = Tail(stk)
  /\ UNCHANGED <<tree, hints, stack, indent, indent_diff, status, err, deps_src,
                 marks, spans>>

\* AstAnnotator.attr: snapshot the dependencies, parse the parts, store the text.
Attr ==
  /\ Running /\ Top.op = "attr"
  /\ LET o == Top
         st == attr_parts(o.vals, St0)
     IN /\ deps_src' = snapshot(deps_src, o.n, o.deps)
        /\ pos' = st.pos
        /\ hints' = st.hints
        /\ calls' = [Logged("attr", o.n, o.name) EXCEPT !.hint_open = st.hint_open,
                                                        !.hint_closed = st.hint_closed]
        /\ IF st.exc = ""
             THEN /\ fmt' = setprop(fmt, o.n, o.name, st.text)
                  /\ spans' = setprop(spans, o.n, o.name, <<pos, st.pos>>)
                  /\ code' = code \o st.text
                  /\ stk' = Tail(stk)
                  /\ UNCHANGED <<status, err>>
             ELSE /\ Raise(st.exc, st.err)
                  /\ UNCHANGED <<fmt, spans, code, stk>>
  /\ UNCHANGED <<tree, parens, stack, indent, indent_diff, marks>>

\* A bare self.token(...) of a recipe; the writer emits the token itself.
Token ==
  /\ Running /\ Top.op = "token"
  /\ LET st == token(Top.name, St0)
     IN /\ pos' = st.pos
        /\ hints' = st.hints
        /\ calls' = [Logged("token", 0, Top.name) EXCEPT !.hint_open = st.hint_open,
                                                         !.hint_closed = st.hint_closed]
        /\ IF st.exc = ""
             THEN /\ code' = code \o st.text
                  /\ stk' = Tail(stk)
                  /\ UNCHANGED <<status, err>>
             ELSE /\ Raise(st.exc, st.err)
                  /\ UNCHANGED <<code, stk>>
  /\ UNCHANGED <<tree, parens, stack, indent, indent_diff, fmt, deps_src, marks,
                 spans>>

\* Variant: the token is taken with next() before it is compared.
OptionalToken_next_before_compare ==
  /\ Running /\ Top.op = "optional_token"
  /\ LET o == Top
         j == peek(pos)
         q == whitespace(j, -1)
     IN IF j # 0 /\ TokAt(j) = o.vals[1]
          THEN /\ pos' = q
               /\ fmt' = appendprop(fmt, o.n, o.name, <<TokAt(j)>> \o Slice(src, j + 1, q))
               /\ code' = code \o <<TokAt(j)>> \o Slice(src, j + 1, q)
          ELSE /\ pos' = IF j # 0 THEN j ELSE pos
               /\ UNCHANGED <<fmt, code>>
  /\ stk' = Tail(stk)
  /\ calls' = Logged("optional_token", Top.n, Top.name)
  /\ UNCHANGED <<tree, hints, parens, stack, indent, indent_diff, status, err,
                 deps_src, marks, spans>>

\* AstAnnotator.optional_token.
OptionalToken ==
  /\ Running /\ Top.op = "optional_token"
  /\ LET o == Top
         j == peek(pos)
         q == whitespace(j, -1)
     IN IF j # 0 /\ TokAt(j) = o.vals[1]
          THEN /\ pos' = q
               /\ fmt' = appendprop(fmt, o.n, o.name, <<TokAt(j)>> \o Slice(src, j + 1, q))
               /\ code' = code \o <<TokAt(j)>> \o Slice(src, j + 1, q)
          ELSE UNCHANGED <<pos, fmt, code>>
  /\ stk' = Tail(stk)
  /\ calls' = Logged("optional_token", Top.n, Top.name)
  /\ UNCHANGED <<tree, hints, parens, stack, indent, indent_diff, status, err,
                 deps_src, marks, spans>>

\* Variant: the test looks at the top of the stack, the node itself.
IndexBracket_top_of_stack ==
  /\ Running /\ Top.op \in {"index_open", "index_close"}
  /\ LET n == Top.n
         own == Len(stack) > 0 /\ Kind(stack[Len(stack)]) # "ExtSlice"
         slot == IF Top.op = "index_open"
                   THEN A(n, "index_open", <<"[", WS>>, <<>>, <<"[">>)
                   ELSE A(n, "index_close", <<WS, "]">>, <<>>, <<"]">>)
     IN stk' = (IF own THEN <<slot>> ELSE <<>>) \o Tail(stk)
  /\ UNCHANGED <<tree, cursor, stack, indent, indent_diff, status, err, fmt, deps_src,
                 marks, code, calls, spans>>

\* visit_Index / visit_Slice: the bracket is this node's own unless its parent
\* on the ancestor stack is an ExtSlice.
IndexBracket ==
  /\ Running /\ Top.op \in {"index_open", "index_close"}
  /\ LET n == Top.n
         own == Len(stack) > 1 /\ Kind(stack[Len(stack) - 1]) # "ExtSlice"
         slot == IF Top.op = "index_open"
                   THEN A(n, "index_open", <<"[", WS>>, <<>>, <<"[">>)
                   ELSE A(n, "index_close", <<WS, "]">>, <<>>, <<"]">>)
     IN stk' = (IF own THEN <<slot>> ELSE <<>>) \o Tail(stk)
  /\ UNCHANGED <<tree, cursor, stack, indent, indent_diff, status, err, fmt, deps_src,
                 marks, code, calls, spans>>

\* Leading blanks and tabs of a line (itertools.takewhile over ' \t').
leading(line) ==
  SubSeq(line, 1, MaxOf({q \in 0..Len(line) : \A k \in 1..q : line[k] = " "}))

\* AstAnnotator.indented up to the first child.
Indented ==
  /\ Running /\ Top.op = "indented"
  /\ LET n == Top.n
         children_attr == Top.name
         children == nodes[n][children_attr]
         cur_loc == LocLine(pos)
         next_tok == peek(pos)
         new_indent == leading(LineText(nodes[children[1]].lineno))
     IN IF next_tok = 0
          THEN /\ Raise("AttributeError", [NoErr EXCEPT !.msg = "'NoneType' object has no attribute 'start'"])
               /\ UNCHANGED <<indent, indent_diff, stk>>
        ELSE IF Len(children) = 1 /\ cur_loc = LineOf(next_tok)
          THEN /\ stk' = <<V(children[1])>> \o Tail(stk)
               /\ UNCHANGED <<indent, indent_diff, status, err>>
        ELSE IF children = <<>>
          THEN /\ Raise("IndexError", [NoErr EXCEPT !.msg = "list index out of range"])
               /\ UNCHANGED <<indent, indent_diff, stk>>
        ELSE IF nodes[children[1]].lineno \notin 1..NumLines
          THEN /\ Raise("IndexError", [NoErr EXCEPT !.msg = "list index out of range"])
               /\ UNCHANGED <<indent, indent_diff, stk>>
        ELSE IF ~IsPrefix(indent, new_indent) \/ Len(new_indent) <= Len(indent)
          THEN /\ Raise("AnnotationError", [NoErr EXCEPT !.msg = "Indent detection failed; inner indentation level is not more than the outer indentation."])
               /\ UNCHANGED <<indent, indent_diff, stk>>
        ELSE /\ indent' = new_indent
             /\ indent_diff' = SubSeq(new_indent, Len(indent) + 1, Len(new_indent))
             /\ stk' = Visits(children)
                       \o <<[Op0 EXCEPT !.op = "dedent", !.n = n, !.name = children_attr,
                                        !.prev_indent = indent,
                                        !.prev_indent_diff = indent_diff]>>
                       \o Tail(stk)
             /\ UNCHANGED <<status, err>>
  /\ UNCHANGED <<tree, cursor, stack, fmt, deps_src, marks, code, calls, spans>>

\* Variant: _indent is restored, _indent_diff is left as the block set it.
Dedent_keeps_indent_diff ==
  /\ Running /\ Top.op = "dedent"
  /\ LET q == block_whitespace(pos, indent)
     IN /\ fmt' = setprop(fmt, Top.n, "block_suffix_" \o Top.name, Slice(src, pos + 1, q))
        /\ code' = code \o Slice(src, pos + 1, q)
        /\ pos' = q
  /\ indent' = Top.prev_indent
  /\ indent_diff' = indent_diff
  /\ stk' = Tail(stk)
  /\ UNCHANGED <<tree, hints, parens, stack, status, err, deps_src, marks, calls,
                 spans>>

\* AstAnnotator.indented after the last child.
Dedent ==
  /\ Running /\ Top.op = "dedent"
  /\ LET q == block_whitespace(pos, indent)
     IN /\ fmt' = setprop(fmt, Top.n, "block_suffix_" \o Top.name, Slice(src, pos + 1, q))
        /\ code' = code \o Slice(src, pos + 1, q)
        /\ pos' = q
  /\ indent' = Top.prev_indent
  /\ indent_diff' = Top.prev_indent_diff
  /\ stk' = Tail(stk)
  /\ UNCHANGED <<tree, hints, parens, stack, status, err, deps_src, marks, calls,
                 spans>>

\* visit_If after the body: the chained alternative or the else block.
visit_If_orelse(n, p) ==
  LET orelse == nodes[n].orelse
      nested == [exc |-> "", mark |-> {},
                 slots |-> <<A(n, "elseprefix", <<WS>>, <<>>, <<>>),
                             T("else"),
                             A(n, "open_else", <<WS, ":", WS_ONELINE>>, <<>>, <<":", "\n">>),
                             Ind(n, "orelse")>>]
  IN IF orelse = <<>> THEN [exc |-> "", mark |-> {}, slots |-> <<>>]
     ELSE IF Len(orelse) = 1 /\ Kind(orelse[1]) = "If"
       THEN LET r == check_is_elif(orelse[1], p)
            IN IF r.exc # "" THEN [exc |-> r.exc, mark |-> {}, slots |-> <<>>]
               ELSE IF r.val
                 THEN [exc |-> "", mark |-> {orelse[1]}, slots |-> <<V(orelse[1])>>]
               ELSE nested
     ELSE nested

\* Variant: the resolver takes the name it looks at.
IfOrelse_takes_lookahead ==
  /\ Running /\ Top.op = "If_orelse"
  /\ LET r == visit_If_orelse(Top.n, pos)
     IN IF r.exc # ""
          THEN /\ Raise(r.exc, [NoErr EXCEPT !.msg = "'NoneType' object has no attribute 'src'"])
               /\ UNCHANGED <<is_elif, stk>>
          ELSE /\ is_elif' = is_elif \cup r.mark
               /\ stk' = r.slots \o Tail(stk)
               /\ UNCHANGED <<status, err>>
  /\ pos' = IF nodes[Top.n].orelse # <<>> /\ next_name(pos) # 0 THEN next_name(pos) ELSE pos
  /\ UNCHANGED <<tree, hints, parens, stack, indent, indent_diff, fmt, deps_src,
                 is_continued, code, calls, spans>>

IfOrelse ==
  /\ Running /\ Top.op = "If_orelse"
  /\ LET r == visit_If_orelse(Top.n, pos)
     IN IF r.exc # ""
          THEN /\ Raise(r.exc, [NoErr EXCEPT !.msg = "'NoneType' object has no attribute 'src'"])
               /\ UNCHANGED <<is_elif, stk>>
          ELSE /\ is_elif' = is_elif \cup r.mark
               /\ stk' = r.slots \o Tail(stk)
               /\ UNCHANGED <<status, err>>
  /\ UNCHANGED <<tree, cursor, stack, indent, indent_diff, fmt, deps_src,
                 is_continued, code, calls, spans>>

\* visit_With after the context expression: a comma-joined item or the block.
visit_With_body(n, p) ==
  LET body == nodes[n].body
      r == IF Len(body) = 1 THEN check_is_continued_with(body[1], p)
           ELSE [exc |-> "", val |-> FALSE]
  IN IF r.exc # "" THEN [exc |-> r.exc, mark |-> {}, slots |-> <<>>]
     ELSE IF r.val
       THEN [exc |-> "", mark |-> {body[1]},
             slots |-> <<A(n, "with_comma", <<WS, ",", WS>>, <<>>, <<",", " ">>),
                         Ind(n, "body")>>]
     ELSE [exc |-> "", mark |-> {}, slots |-> <<OPEN_BLOCK(n), Ind(n, "body")>>]

WithBody ==
  /\ Running /\ Top.op = "With_body"
  /\ LET r == visit_With_body(Top.n, pos)
     IN IF r.exc # ""
          THEN /\ Raise(r.exc, [NoErr EXCEPT !.msg = "'NoneType' object has no attribute 'src'"])
               /\ UNCHANGED <<is_continued, stk>>
          ELSE /\ is_continued' = is_continued \cup r.mark
               /\ stk' = r.slots \o Tail(stk)
               /\ UNCHANGED <<status, err>>
  /\ UNCHANGED <<tree, cursor, stack, indent, indent_diff, fmt, deps_src, is_elif,
                 code, calls, spans>>

\* The outermost visit returns: annotate is done.
Return ==
  /\ status = "running" /\ stk = <<>>
  /\ status' = "ok"
  /\ UNCHANGED <<tree, cursor, stack, indent, indent_diff, stk, err, fmt, deps_src,
                 marks, code, calls, spans>>

\* The slots declared with deps, by node kind: <<attribute, field>>.
DepSlots(kind) ==
  CASE kind = "ClassDef" -> {<<"class_def", "name">>}
    [] kind = "FunctionDef" -> {<<"function_def", "name">>, <<"returns_prefix", "returns">>}
    [] kind = "ImportFrom" -> {<<"module", "level">>, <<"module", "module">>}
    [] kind = "BoolOp" -> {<<"op_0", "op">>}
    [] kind = "alias" -> {<<"name", "name">>}
    [] kind = "Num" -> {<<"content", "n">>}
    [] kind = "Str" -> {<<"content", "s">>}
    [] OTHER -> {}

\* A value of the field other than the one it holds.
OtherValue(n, field) ==
  CASE field = "name" /\ Kind(n) = "alias" -> <<"renamed">>
    [] field = "name" /\ Kind(n) # "alias" -> "Renamed"
    [] field = "returns" -> 0
    [] field = "level" -> nodes[n].level + 1
    [] field = "module" -> <<"renamed">>
    [] field = "op" -> IF nodes[n].op = "And" THEN "Or" ELSE "And"
    [] field = "n" -> nodes[n].n + 1
    [] field = "s" -> "edited"

\* After annotation the host application edits a semantic field of a node.
Edit ==
  /\ status = "ok"
  /\ \E n \in 1..Len(nodes) :
       \E sl \in DepSlots(Kind(n)) :
         /\ <<n, sl[2]>> \notin edited
         /\ sl[1] \in DOMAIN fmt[n]
         /\ nodes' = [nodes EXCEPT ![n] = [@ EXCEPT ![sl[2]] = OtherValue(n, sl[2])]]
         /\ edited' = edited \cup {<<n, sl[2]>>}
  /\ UNCHANGED <<src, input, cursor, stack, indent, indent_diff, stk, status, err,
                 fmt, deps_src, marks, code, calls, spans>>

-----------------------------------------------------------------------------
\* Inputs of annotate: a tree and a source text.  w is the width of one
\* indentation level, b a number of blank lines, k a number of redundant
\* parentheses (or of optional punctuation) the source is written with.

Ln(ind, toks) == Sp(ind) \o toks \o <<"\n">>

Paren(k, toks) == Rep("(", k) \o toks \o Rep(")", k)

mkModule(body) == [Node0 EXCEPT !.kind = "Module", !.body = body]

mkName(id) == [Node0 EXCEPT !.kind = "Name", !.id = id]

mkPass(lineno) == [Node0 EXCEPT !.kind = "Pass", !.lineno = lineno]

mkExpr(lineno, value) == [Node0 EXCEPT !.kind = "Expr", !.lineno = lineno, !.value = value]

mkIf(lineno, test, body, orelse) ==
  [Node0 EXCEPT !.kind = "If", !.lineno = lineno, !.test = test, !.body = body,
                !.orelse = orelse]

mkWhile(lineno, test, body, orelse) ==
  [Node0 EXCEPT !.kind = "While", !.lineno = lineno, !.test = test, !.body = body,
                !.orelse = orelse]

mkFor(lineno, target, iter, body, orelse) ==
  [Node0 EXCEPT !.kind = "For", !.lineno = lineno, !.target = target, !.iter = iter,
                !.body = body, !.orelse = orelse]

mkWith(lineno, context_expr, optional_vars, body) ==
  [Node0 EXCEPT !.kind = "With", !.lineno = lineno, !.context_expr = context_expr,
                !.optional_vars = optional_vars, !.body = body]

mkArg(arg) == [Node0 EXCEPT !.kind = "arg", !.arg = arg]

mkAlias(name, asname) == [Node0 EXCEPT !.kind = "alias", !.name = name, !.asname = asname]

mkCall(func, args, keywords, starargs, kwargs) ==
  [Node0 EXCEPT !.kind = "Call", !.lineno = 1, !.func = func, !.args = args,
                !.keywords = keywords, !.starargs = starargs, !.kwargs = kwargs]

mkKeyword(arg, value) == [Node0 EXCEPT !.kind = "keyword", !.arg = arg, !.value = value]

\* A name with its location, for the nodes find_starargs compares.
mkNameAt(id, col_offset) ==
  [Node0 EXCEPT !.kind = "Name", !.id = id, !.lineno = 1, !.col_offset = col_offset]

mkSubscript(value, slice) ==
  [Node0 EXCEPT !.kind = "Subscript", !.value = value, !.slice = slice]

mkIndex(value) == [Node0 EXCEPT !.kind = "Index", !.value = value]

mkSlice(lower, upper, step) ==
  [Node0 EXCEPT !.kind = "Slice", !.lower = lower, !.upper = upper, !.step = step]

\* An optional trailing comma.
Comma(k) == Rep(",", IF k > 0 THEN 1 ELSE 0)

\* Calls, subscripts and nonlocal statements with the tree they parse to.
ValidCase2(c, w, b, k) ==
  CASE c = "while" ->
         [nodes |-> <<mkModule(<<2>>), mkWhile(1, 3, <<4>>, <<>>), mkName("a"),
                      mkPass(2)>>,
          src |-> Ln(0, <<"while", " ">> \o Paren(k, <<"a">>) \o <<":">>)
                  \o Ln(w, <<"pass">>) \o Nl(b)]
    [] c = "while_else" ->
         [nodes |-> <<mkModule(<<2>>), mkWhile(1, 3, <<4>>, <<5>>), mkName("a"),
                      mkPass(2), mkPass(4 + b)>>,
          src |-> Ln(0, <<"while", " ", "a">> \o Sp(k) \o <<":">>) \o Ln(w, <<"pass">>)
                  \o Nl(b) \o Ln(0, <<"else", ":">>) \o Ln(w, <<"pass">>)]
    [] c = "for_else" ->
         [nodes |-> <<mkModule(<<2>>), mkFor(1, 3, 4, <<5>>, <<6>>), mkName("x"),
                      mkName("y"), mkPass(2), mkPass(4 + b)>>,
          src |-> Ln(0, <<"for", " ", "x", " ", "in", " ", "y">> \o Sp(k) \o <<":">>)
                  \o Ln(w, <<"pass">>) \o Nl(b) \o Ln(0, <<"else", ":">>)
                  \o Ln(w, <<"pass">>)]
    [] c = "call0" ->
         [nodes |-> <<mkModule(<<2>>), mkExpr(1, 3), mkCall(4, <<>>, <<>>, 0, 0),
                      mkName("f")>>,
          src |-> Ln(0, <<"f", "(">> \o Sp(b) \o <<")">>)]
    [] c = "call1" ->
         [nodes |-> <<mkModule(<<2>>), mkExpr(1, 3), mkCall(4, <<5>>, <<>>, 0, 0),
                      mkName("f"), mkName("a")>>,
          src |-> Ln(0, <<"f", "(", "a">> \o Comma(k) \o <<")">>)]
    [] c = "call" ->
         [nodes |-> <<mkModule(<<2>>), mkExpr(1, 3), mkCall(4, <<5, 6>>, <<>>, 0, 0),
                      mkName("f"), mkName("a"), mkName("b")>>,
          src |-> Ln(0, <<"f", "(", "a", ",", " ", "b">> \o Comma(k) \o Sp(b) \o <<")">>)]
    [] c = "call_kw" ->
         [nodes |-> <<mkModule(<<2>>), mkExpr(1, 3), mkCall(4, <<5>>, <<6>>, 0, 0),
                      mkName("f"), mkName("a"), mkKeyword("k", 7), mkName("b")>>,
          src |-> Ln(0, <<"f", "(", "a", ",", " ", "k", "=", "b">> \o Comma(k) \o <<")">>)]
    [] c = "call_star" ->
         [nodes |-> <<mkModule(<<2>>), mkExpr(1, 3), mkCall(4, <<5>>, <<6>>, 8, 9),
                      mkName("f"), mkName("a"), mkKeyword("k", 7), mkNameAt("b", 12),
                      mkNameAt("s", 7), mkNameAt("kw", 16)>>,
          src |-> Ln(0, <<"f", "(", "a", ",", " ", "*", "s", ",", " ", "k", "=", "b",
                          ",", " ", "**", "kw", ")">>)]
    [] c = "call_kw_star" ->
         [nodes |-> <<mkModule(<<2>>), mkExpr(1, 3), mkCall(4, <<>>, <<5>>, 7, 0),
                      mkName("f"), mkKeyword("k", 6), mkNameAt("b", 5), mkNameAt("s", 9)>>,
          src |-> Ln(0, <<"f", "(", "k", "=", "b", ",", " ", "*", "s", ")">>)]
    [] c = "index" ->
         [nodes |-> <<mkModule(<<2>>), mkExpr(1, 3), mkSubscript(4, 5), mkName("a"),
                      mkIndex(6), mkName("b")>>,
          src |-> Ln(0, <<"a", "[">> \o Paren(k, <<"b">>) \o Sp(b) \o <<"]">>)]
    [] c = "slice" ->
         [nodes |-> <<mkModule(<<2>>), mkExpr(1, 3), mkSubscript(4, 5), mkName("a"),
                      mkSlice(6, 7, 0), mkName("b"), mkName("c")>>,
          src |-> Ln(0, <<"a", "[", "b">> \o Sp(b) \o <<":", "c", "]">>)]
    [] c = "slice_step" ->
         [nodes |-> <<mkModule(<<2>>), mkExpr(1, 3), mkSubscript(4, 5), mkName("a"),
                      mkSlice(0, 0, 6), mkName("c")>>,
          src |-> Ln(0, <<"a", "[", ":", ":", "c", "]">>)]
    [] c = "extslice" ->
         [nodes |-> <<mkModule(<<2>>), mkExpr(1, 3), mkSubscript(4, 5), mkName("a"),
                      [Node0 EXCEPT !.kind = "ExtSlice", !.dims = <<6, 9>>],
                      mkSlice(7, 8, 0), mkName("b"), mkName("c"), mkIndex(10),
                      mkName("d")>>,
          src |-> Ln(0, <<"a", "[", "b", ":", "c", ",", " ", "d", "]">>)]
    [] c = "nonlocal" ->
         [nodes |-> <<mkModule(<<2>>),
                      [Node0 EXCEPT !.kind = "Nonlocal", !.lineno = 1, !.names = <<"a", "b">>]>>,
          src |-> Ln(0, <<"nonlocal", " ", "a", ",", " ", "b">>)]
    [] c = "nonlocal_dup" ->
         [nodes |-> <<mkModule(<<2>>),
                      [Node0 EXCEPT !.kind = "Nonlocal", !.lineno = 1, !.names = <<"a", "a">>]>>,
          src |-> Ln(0, <<"nonlocal", " ", "a", ",", " ", "a">>)]

\* Sources that parse to the tree they come with.
ValidCase(c, w, b, k) ==
  CASE c = "expr" ->
         [nodes |-> <<mkModule(<<2>>), mkExpr(1, 3), mkName("a")>>,
          src |-> Ln(0, Paren(k, <<"a">>)) \o Nl(b)]
    [] c = "if_elif" ->
         [nodes |-> <<mkModule(<<2>>), mkIf(1, 3, <<4>>, <<5>>), mkName("a"), mkPass(2),
                      mkIf(3 + b, 6, <<7>>, <<>>), mkName("b"), mkPass(4 + b)>>,
          src |-> Ln(0, <<"if", " ">> \o Paren(k, <<"a">>) \o <<":">>) \o Ln(w, <<"pass">>)
                  \o Nl(b) \o Ln(0, <<"elif", " ", "b", ":">>) \o Ln(w, <<"pass">>)]
    [] c = "if_else_if" ->
         [nodes |-> <<mkModule(<<2>>), mkIf(1, 3, <<4>>, <<5>>), mkName("a"), mkPass(2),
                      mkIf(4 + b, 6, <<7>>, <<>>), mkName("b"), mkPass(5 + b)>>,
          src |-> Ln(0, <<"if", " ", "a", ":">>) \o Ln(w, <<"pass">>) \o Nl(b)
                  \o Ln(0, <<"else", ":">>) \o Ln(w, <<"if", " ", "b", ":">>)
                  \o Ln(w + w, <<"pass">>)]
    [] c = "if_else" ->
         [nodes |-> <<mkModule(<<2>>), mkIf(1, 3, <<4>>, <<5>>), mkName("a"), mkPass(2),
                      mkPass(4)>>,
          src |-> Ln(0, <<"if", " ", "a", ":">>) \o Ln(w, <<"pass">>)
                  \o Ln(0, <<"else", ":">>) \o Ln(w, <<"pass">>) \o Nl(b)]
    [] c = "if_oneline" ->
         [nodes |-> <<mkModule(<<2>>), mkIf(1, 3, <<4>>, <<>>), mkName("a"), mkPass(1)>>,
          src |-> Ln(0, <<"if", " ", "a", ":">> \o Sp(w) \o <<"pass">>)]
    [] c = "if_oneline2" ->
         [nodes |-> <<mkModule(<<2>>), mkIf(1, 3, <<4, 6>>, <<>>), mkName("a"),
                      mkExpr(1, 5), mkName("x"), mkExpr(1, 7), mkName("y")>>,
          src |-> Ln(0, <<"if", " ", "a", ":", " ", "x", ";", " ", "y">>)]
    [] c = "with_comma" ->
         [nodes |-> <<mkModule(<<2>>), mkWith(1, 3, 0, <<4>>), mkName("a"),
                      mkWith(1, 5, 0, <<6>>), mkName("b"), mkPass(2)>>,
          src |-> Ln(0, <<"with", " ", "a", ",", " ", "b", ":">>) \o Ln(w, <<"pass">>)]
    [] c = "with_nested" ->
         [nodes |-> <<mkModule(<<2>>), mkWith(1, 3, 7, <<4>>), mkName("a"),
                      mkWith(2, 5, 0, <<6>>), mkName("b"), mkPass(3), mkName("c")>>,
          src |-> Ln(0, <<"with", " ", "a", " ", "as", " ", "c", ":">>)
                  \o Ln(w, <<"with", " ", "b", ":">>) \o Ln(w + w, <<"pass">>)]
    [] c = "try" ->
         [nodes |-> <<mkModule(<<2>>),
                      [Node0 EXCEPT !.kind = "Try", !.lineno = 1, !.body = <<3>>,
                                    !.handlers = <<4>>, !.orelse = <<7>>,
                                    !.finalbody = <<8>>],
                      mkPass(2),
                      [Node0 EXCEPT !.kind = "ExceptHandler", !.lineno = 3 + b,
                                    !.type = 5, !.name = "e", !.body = <<6>>],
                      mkName("E"), mkPass(4 + b), mkPass(6 + b), mkPass(8 + b)>>,
          src |-> Ln(0, <<"try", ":">>) \o Ln(w, <<"pass">>) \o Nl(b)
                  \o Ln(0, <<"except", " ", "E", " ", "as", " ", "e", ":">>)
                  \o Ln(w, <<"pass">>) \o Ln(0, <<"else", ":">>) \o Ln(w, <<"pass">>)
                  \o Ln(0, <<"finally", ":">>) \o Ln(w, <<"pass">>)]
    [] c = "if_try" ->
         [nodes |-> <<mkModule(<<2>>), mkIf(1, 3, <<4>>, <<>>), mkName("a"),
                      [Node0 EXCEPT !.kind = "Try", !.lineno = 2, !.body = <<5>>,
                                    !.finalbody = <<6>>],
                      mkPass(3), mkPass(5)>>,
          src |-> Ln(0, <<"if", " ", "a", ":">>) \o Ln(w, <<"try", ":">>)
                  \o Ln(w + w, <<"pass">>) \o Ln(w, <<"finally", ":">>)
                  \o Ln(w + w, <<"pass">>)]
    [] c = "global" ->
         [nodes |-> <<mkModule(<<2>>),
                      [Node0 EXCEPT !.kind = "Global", !.lineno = 1, !.names = <<"a", "b">>]>>,
          src |-> Ln(0, <<"global", " ", "a", ",", " ", "b">>)]
    [] c = "global_dup" ->
         [nodes |-> <<mkModule(<<2>>),
                      [Node0 EXCEPT !.kind = "Global", !.lineno = 1, !.names = <<"a", "a">>]>>,
          src |-> Ln(0, <<"global", " ", "a", ",", " ", "a">>)]
    [] c = "classdef" ->
         [nodes |-> <<mkModule(<<2>>),
                      [Node0 EXCEPT !.kind = "ClassDef", !.lineno = 1, !.name = "A",
                                    !.bases = <<3, 4>>, !.body = <<5>>],
                      mkName("B"), mkName("C"), mkPass(2)>>,
          src |-> Ln(0, <<"class", " ", "A", "(", "B", ",", " ", "C">>
                        \o Rep(",", IF k > 0 THEN 1 ELSE 0) \o <<")", ":">>)
                  \o Ln(w, <<"pass">>)]
    [] c = "classdef_nobases" ->
         [nodes |-> <<mkModule(<<2>>),
                      [Node0 EXCEPT !.kind = "ClassDef", !.lineno = 1, !.name = "A",
                                    !.body = <<3>>],
                      mkPass(2)>>,
          src |-> Ln(0, <<"class", " ", "A">>
                        \o (IF k > 0 THEN <<"(", ")">> ELSE <<>>) \o <<":">>)
                  \o Ln(w, <<"pass">>)]
    [] c = "funcdef" ->
         [nodes |-> <<mkModule(<<2>>),
                      [Node0 EXCEPT !.kind = "FunctionDef", !.lineno = 2, !.name = "f",
                                    !.decorator_list = <<3>>, !.args = 4,
                                    !.returns = 10, !.body = <<11>>],
                      mkName("g"),
                      [Node0 EXCEPT !.kind = "arguments", !.args = <<5, 6>>,
                                    !.defaults = <<7>>, !.vararg = 8, !.kwarg = 9],
                      mkArg("a"), mkArg("b"),
                      [Node0 EXCEPT !.kind = "Num", !.n = 1],
                      mkArg("c"), mkArg("d"), mkName("r"), mkPass(3)>>,
          src |-> Ln(0, <<"@", "g">>)
                  \o Ln(0, <<"def", " ", "f", "(", "a", ",", " ", "b", "=", "1", ",", " ",
                             "*", "c", ",", " ", "**", "d", ")", " ", "->", " ", "r", ":">>)
                  \o Ln(w, <<"pass">>)]
    [] c = "importfrom" ->
         [nodes |-> <<mkModule(<<2>>),
                      [Node0 EXCEPT !.kind = "ImportFrom", !.lineno = 1, !.level = 1,
                                    !.module = <<"a", "b">>, !.names = <<3, 4>>],
                      mkAlias(<<"c">>, "d"), mkAlias(<<"e">>, "")>>,
          src |-> Ln(0, <<"from", " ", ".", "a", ".", "b", " ", "import", " ", "c", " ",
                          "as", " ", "d", ",", " ", "e">>)]
    [] c = "boolop" ->
         [nodes |-> <<mkModule(<<2>>), mkExpr(1, 3),
                      [Node0 EXCEPT !.kind = "BoolOp", !.op = "And", !.values = <<4, 5>>],
                      mkName("a"), mkName("b")>>,
          src |-> Ln(0, Paren(k, <<"a", " ", "and", " ", "b">>))]
    [] c = "num" ->
         [nodes |-> <<mkModule(<<2>>), mkExpr(1, 3), [Node0 EXCEPT !.kind = "Num", !.n = 1]>>,
          src |-> Ln(0, <<"0x1">>) \o Nl(b)]
    [] c = "num_neg" ->
         [nodes |-> <<mkModule(<<2>>), mkExpr(1, 3), [Node0 EXCEPT !.kind = "Num", !.n = -1]>>,
          src |-> Ln(0, <<"-", "1">>)]
    [] c = "str" ->
         [nodes |-> <<mkModule(<<2>>), mkExpr(1, 3), [Node0 EXCEPT !.kind = "Str", !.s = "s"]>>,
          src |-> Ln(0, <<"'s'">>)]
    [] c = "list" ->
         [nodes |-> <<mkModule(<<2>>), mkExpr(1, 3),
                      [Node0 EXCEPT !.kind = "List", !.elts = <<4, 5>>],
                      mkName("a"), mkName("b")>>,
          src |-> Ln(0, <<"[", "a", ",", " ", "b">> \o Rep(",", IF k > 0 THEN 1 ELSE 0)
                        \o <<"]">>)]
    [] OTHER -> ValidCase2(c, w, b, k)

ValidCases ==
  {"expr", "if_elif", "if_else_if", "if_else", "if_oneline", "if_oneline2",
   "with_comma", "with_nested", "try", "if_try", "global", "global_dup", "classdef",
   "classdef_nobases", "funcdef", "importfrom", "boolop", "num", "num_neg", "str",
   "list", "call0", "call1", "call", "call_kw", "call_star", "call_kw_star", "index",
   "slice", "slice_step", "extslice", "nonlocal", "nonlocal_dup", "while", "while_else",
   "for_else"}

\* A tree paired with a source it is not the parse of.
OtherCase(c, w, b, k) ==
  CASE c = "extra_tokens" ->
         [nodes |-> <<mkModule(<<2>>), mkExpr(1, 3), mkName("a")>>,
          src |-> Ln(0, <<"a">>) \o Nl(b) \o Ln(0, <<"b">>)]
    [] c = "try_flat" ->
         [nodes |-> <<mkModule(<<2>>),
                      [Node0 EXCEPT !.kind = "Try", !.lineno = 1, !.body = <<3>>,
                                    !.finalbody = <<4>>],
                      mkPass(2), mkPass(4)>>,
          src |-> Ln(0, <<"try", ":">>) \o Ln(0, <<"pass">>)
                  \o Ln(0, <<"finally", ":">>) \o Ln(w, <<"pass">>)]
    [] c = "if_flat" ->
         [nodes |-> <<mkModule(<<2>>), mkIf(1, 3, <<4>>, <<>>), mkName("a"),
                      mkIf(2, 5, <<6>>, <<>>), mkName("b"), mkPass(3)>>,
          src |-> Ln(0, <<"if", " ", "a", ":">>) \o Ln(w, <<"if", " ", "b", ":">>)
                  \o Ln(w, <<"pass">>)]
    [] c = "mismatch" ->
         [nodes |-> <<mkModule(<<2>>), mkExpr(1 + b, 3), mkName("a")>>,
          src |-> Nl(b) \o Ln(0, Sp(w) \o <<"c">>)]
    [] c = "elif_eof" ->
         [nodes |-> <<mkModule(<<2>>), mkIf(1, 3, <<4>>, <<5>>), mkName("a"), mkPass(2),
                      mkIf(3, 6, <<7>>, <<>>), mkName("b"), mkPass(4)>>,
          src |-> Ln(0, <<"if", " ", "a", ":">>) \o Ln(w, <<"pass">>)]
    [] c = "empty_body" ->
         [nodes |-> <<mkModule(<<2>>), mkIf(1, 3, <<>>, <<>>), mkName("a")>>,
          src |-> Ln(0, <<"if", " ", "a", ":">>) \o Ln(w, <<"pass">>)]
    [] c = "num_mismatch" ->
         [nodes |-> <<mkModule(<<2>>), mkExpr(1, 3), [Node0 EXCEPT !.kind = "Num", !.n = 1]>>,
          src |-> Ln(0, <<"a">>)]

OtherCases ==
  {"extra_tokens", "try_flat", "if_flat", "mismatch", "elif_eof", "empty_body",
   "num_mismatch"}

Case(i) ==
  IF i.case \in ValidCases THEN ValidCase(i.case, i.w, i.b, i.k)
  ELSE OtherCase(i.case, i.w, i.b, i.k)

Inputs ==
  [case : ValidCases \cup OtherCases, w : 1..MaxIndent, b : 0..MaxBlank, k : 0..MaxParens]

-----------------------------------------------------------------------------
\* AstAnnotator.__init__ followed by the call visit(tree).
Init ==
  /\ input \in Inputs
  /\ nodes = Case(input).nodes
  /\ src = Case(input).src
  /\ pos = 0
  /\ hints = 0
  /\ parens = <<>>
  /\ stack = <<>>
  /\ indent = <<>>
  /\ indent_diff = <<>>
  /\ stk = <<V(1)>>
  /\ status = "running"
  /\ err = NoErr
  /\ fmt = [n \in 1..Len(Case(input).nodes) |-> EmptyF]
  /\ deps_src = [n \in 1..Len(Case(input).nodes) |-> EmptyF]
  /\ spans = [n \in 1..Len(Case(input).nodes) |-> EmptyF]
  /\ is_elif = {}
  /\ is_continued = {}
  /\ code = <<>>
  /\ calls = [scope_in |-> 0, scope_out |-> 0, hint_open |-> 0, hint_closed |-> 0,
              log |-> <<>>]
  /\ edited = {}

Next ==
  \/ Visit
  \/ Leave
  \/ ScopeEnter
  \/ ScopeExit
  \/ Attr
  \/ Token
  \/ OptionalToken
  \/ IndexBracket
  \/ Indented
  \/ Dedent
  \/ IfOrelse
  \/ WithBody
  \/ Return
  \/ Edit

Spec == Init /\ [][Next]_vars

-----------------------------------------------------------------------------
\* Properties.

Valid == input.case \in ValidCases

Failed == status \notin {"running", "ok"}

Visited(n) == "indent" \in DOMAIN fmt[n]

StrictExt(p, s) == IsPrefix(p, s) /\ Len(p) < Len(s)

\* First token of line l of the source ("" when the source has no such line).
FirstTok(l) ==
  LET ks == {k \in 1..Len(src) : LineOf(k) = l /\ src[k] # " "}
  IN IF ks = {} THEN "" ELSE src[MinOf(ks)]

LineIndent(l) == leading(LineText(l))

\* The statements of n's blocks that start a line of their own below n's
\* header; a chained elif is a clause of n, not a statement of a block.
BodyLines(n) ==
  {c \in 1..Len(nodes) :
     /\ \E a \in {"body", "orelse", "finalbody"} :
          \E i \in 1..Len(nodes[n][a]) : nodes[n][a][i] = c
     /\ nodes[c].lineno > nodes[n].lineno
     /\ FirstTok(nodes[c].lineno) # "elif"}

Blocks == {n \in 1..Len(nodes) :
             Kind(n) \in {"If", "While", "For", "With", "Try", "ExceptHandler", "ClassDef",
                          "FunctionDef"}}

\* C1: for every valid input, annotation succeeds and the text regenerated
\* from the annotated tree (each recorded attribute and each matched literal
\* token, in traversal order) is the original source.
C1_RoundTrip == (Valid /\ status # "running") => (status = "ok" /\ code = src)

\* C2: the indent recorded for a block's body strictly extends the indent of
\* the enclosing block, and an input with a body line that does not strictly
\* extend its header's indentation never annotates successfully.
C2_IndentMonotone ==
  /\ (\E n \in Blocks : \E c \in BodyLines(n) :
        ~StrictExt(LineIndent(nodes[n].lineno), LineIndent(nodes[c].lineno)))
       => status # "ok"
  /\ status = "ok" =>
       \A n \in Blocks : \A c \in BodyLines(n) :
         StrictExt(fmt[n]["indent"], fmt[c]["indent"])

\* C3: a pass ends successfully only at end of input: no token other than
\* whitespace is left unconsumed.
C3_EndOfInput ==
  status = "ok" => \A j \in (pos + 1)..Len(src) : src[j] \in {" ", "\n"}

\* C4: at the end of a successful pass the scope entries (scope() entered,
\* hint_open called) equal the scope exits (scope() left, hint_closed called).
C4_BracketBalance ==
  status = "ok" =>
    calls.scope_in + calls.hint_open = calls.scope_out + calls.hint_closed

C4_Witness ==
  status = "ok" /\ calls.hint_open > 0 /\ calls.scope_in > 0 /\ input.case = "list"

Mismatch == status = "AnnotationError" /\ err.expected # err.found

\* C5 as stated: a mismatch error carries the expected text, the actual text,
\* the 1-based line, the column and the text of the line.
C5_CarriesColumn ==
  Mismatch =>
    /\ err.found = TokAt(pos)
    /\ err.line = LineOf(pos)
    /\ err.linetext = LineText(err.line)
    /\ "column" \in DOMAIN err

\* C5 (amended): a literal-token slot whose expected text differs from the
\* next token's text fails with an annotation error that carries the expected
\* text, the actual text, the 1-based line of the token and the text of that
\* line, and nothing else: no column.
C5_MismatchError ==
  Mismatch =>
    /\ stk # <<>> /\ Top.op \in {"token", "attr"}
    /\ err.expected = (IF Top.op = "token" THEN Top.name ELSE err.expected)
    /\ Top.op = "attr" => \E i \in 1..Len(Top.vals) : Top.vals[i] = err.expected
    /\ err.found = TokAt(pos)
    /\ err.line = LineOf(pos) /\ err.line >= 1
    /\ err.linetext = LineText(err.line)
    /\ DOMAIN err = {"msg", "expected", "found", "line", "linetext"}

C5_Witness == Mismatch /\ input.case = "mismatch" /\ input.b > 0

\* C6: no failure other than AnnotationError leaves a visit.
C6_OnlyAnnotationError == status \in {"running", "ok", "AnnotationError"}

\* C7: after a failed pass no node carries anything the pass wrote: no
\* formatting attribute, dependency snapshot, indent context or flag.
C7_AllOrNothing ==
  Failed =>
    /\ \A n \in 1..Len(nodes) : fmt[n] = EmptyF /\ deps_src[n] = EmptyF
    /\ is_elif = {} /\ is_continued = {}

\* C8: every slot declared with dependencies stores, with its text (the
\* source consumed for it, in order), the value each named field had at
\* annotation time under '<dep>__src'; a field changed afterwards differs
\* from its snapshot.
C8_DependencySnapshot ==
  status = "ok" =>
    \A n \in 1..Len(nodes) : \A sl \in DepSlots(Kind(n)) :
      sl[1] \in DOMAIN fmt[n] =>
        /\ (sl[2] \o "__src") \in DOMAIN deps_src[n]
        /\ deps_src[n][sl[2] \o "__src"] = Case(input).nodes[n][sl[2]]
        /\ fmt[n][sl[1]] = Slice(src, spans[n][sl[1]][1] + 1, spans[n][sl[1]][2])
        /\ (<<n, sl[2]>> \in edited <=> nodes[n][sl[2]] # deps_src[n][sl[2] \o "__src"])

C8_Witness ==
  /\ status = "ok" /\ input.case = "importfrom"
  /\ <<2, "module">> \in edited /\ <<2, "level">> \notin edited

\* An If whose orelse is exactly one nested If.
Chained(n) == Kind(n) = "If" /\ Len(nodes[n].orelse) = 1 /\ Kind(nodes[n].orelse[1]) = "If"

\* C9: the nested If of a chained alternative is flagged is_elif iff the
\* source spells the branch 'elif'; flagged, its open_if matches 'elif' and the
\* outer node records no elseprefix / open_else and opens no indentation
\* level; unflagged, 'else' and open_else are matched and the nested If is an
\* ordinary indented child.
C9_ElifResolution ==
  /\ \A c \in is_elif : FirstTok(nodes[c].lineno) = "elif"
  /\ status = "ok" =>
       \A n \in 1..Len(nodes) : (Chained(n) /\ Visited(n)) =>
         LET c == nodes[n].orelse[1]
         IN IF FirstTok(nodes[c].lineno) = "elif"
              THEN /\ c \in is_elif
                   /\ fmt[c]["open_if"][1] = "elif"
                   /\ DOMAIN fmt[n] \cap {"elseprefix", "open_else", "block_suffix_orelse"} = {}
                   /\ fmt[c]["indent"] = fmt[n]["indent"]
              ELSE /\ c \notin is_elif
                   /\ fmt[c]["open_if"][1] = "if"
                   /\ {"elseprefix", "open_else", "block_suffix_orelse"} \subseteq DOMAIN fmt[n]
                   /\ src[spans[n]["elseprefix"][2] + 1] = "else"
                   /\ StrictExt(fmt[n]["indent"], fmt[c]["indent"])

C9_Witness == status = "ok" /\ input.case = "if_elif" /\ 5 \in is_elif

\* A With whose body is exactly one nested With.
Joined(n) == Kind(n) = "With" /\ Len(nodes[n].body) = 1 /\ Kind(nodes[n].body[1]) = "With"

\* The header line of n holds a comma.
CommaOnLine(n) == \E j \in 1..Len(src) : LineOf(j) = nodes[n].lineno /\ src[j] = ","

Parent(c) == CHOOSE n \in 1..Len(nodes) : nodes[n].body = <<c>>

\* C10: the nested With of a With whose body is exactly that node is marked
\* is_continued iff a comma follows; marked, the outer node records
\* with_comma instead of open_block and the nested node matches no 'with';
\* unmarked, the outer node records open_block and the nested node matches
\* its own 'with'.
C10_ContinuedWith ==
  /\ \A c \in is_continued : CommaOnLine(Parent(c))
  /\ status = "ok" =>
       \A n \in 1..Len(nodes) : (Joined(n) /\ Visited(n)) =>
         LET c == nodes[n].body[1]
         IN IF CommaOnLine(n)
              THEN /\ c \in is_continued
                   /\ "with_comma" \in DOMAIN fmt[n] /\ "open_block" \notin DOMAIN fmt[n]
                   /\ "with" \notin DOMAIN fmt[c]
              ELSE /\ c \notin is_continued
                   /\ "open_block" \in DOMAIN fmt[n] /\ "with_comma" \notin DOMAIN fmt[n]
                   /\ "with" \in DOMAIN fmt[c] /\ fmt[c]["with"][1] = "with"

C10_Witness == status = "ok" /\ input.case = "with_comma" /\ 4 \in is_continued

\* C11: an optional-token slot looks at the next token without taking it; if
\* its text is the expected one the token and the whitespace after it are
\* consumed and appended to the node's attribute; otherwise the cursor and
\* every node's formatting are left as they were; neither way fails.
C11_OptionalToken ==
  [][(Running /\ Top.op = "optional_token") =>
       LET j == peek(pos)
           n == Top.n
           name == Top.name
       IN /\ status' = "running"
          /\ IF j # 0 /\ src[j] = Top.vals[1]
               THEN /\ pos' >= j
                    /\ \A i \in (j + 1)..pos' : src[i] \in {" ", "\n"}
                    /\ pos' < Len(src) => src[pos' + 1] \notin {" ", "\n"}
                    /\ fmt'[n][name] = prop(fmt, n, name) \o Slice(src, j, pos')
                    /\ \A m \in 1..Len(nodes) : m # n => fmt'[m] = fmt[m]
               ELSE pos' = pos /\ fmt' = fmt]_vars

\* A list written without trailing comma has been annotated.
C11_Witness ==
  /\ status = "ok" /\ input.case = "list" /\ input.k = 0
  /\ "list_close" \in DOMAIN fmt[3] /\ "extracomma" \notin DOMAIN fmt[3]

\* The items of a call: positional, starred, keyword and double-starred.
Items(n) ==
  ({nodes[n].args[i] : i \in 1..Len(nodes[n].args)}
   \cup {nodes[n].keywords[i] : i \in 1..Len(nodes[n].keywords)}
   \cup {nodes[n].starargs, nodes[n].kwargs}) \ {0}

\* Where an item is written: the lexeme of its name (its keyword for a
\* keyword item); the modelled sources use every name once.
ItemPos(c) ==
  LET ident == IF Kind(c) = "keyword" THEN nodes[c].arg ELSE nodes[c].id
  IN CHOOSE j \in 1..Len(src) : src[j] = ident

\* The visits made so far to the nodes of set S, in order.
VisitsOf(S) == SelectSeq(calls.log, LAMBDA e : e.op = "visit" /\ e.n \in S)

CommaNames == {"comma_" \o ToString(i) : i \in 0..8}

\* The token before the last ")" of the source is a comma.
TrailingComma ==
  LET close == MaxOf({j \in 1..Len(src) : src[j] = ")"})
      last == MaxOf({j \in 1..(close - 1) : src[j] # " "})
  IN src[last] = ","

\* C12: in an annotated call of k items each item was visited once, in source
\* order; the separators recorded are exactly comma_0..comma_(k-2), comma_i
\* being a comma written between item i and item i+1; the trailing comma is
\* attempted iff k > 0 and, when the source has one, it is in 'extracomma'.
C12_CallSeparators ==
  status = "ok" =>
    \A n \in 1..Len(nodes) : (Kind(n) = "Call" /\ "close_call" \in DOMAIN fmt[n]) =>
      LET k == Cardinality(Items(n))
          vs == VisitsOf(Items(n))
          attempts == SelectSeq(calls.log, LAMBDA e : e.op = "optional_token" /\ e.n = n)
      IN /\ Len(vs) = k
         /\ \A c \in Items(n) : \E i \in 1..k : vs[i].n = c
         /\ \A i \in 1..k : \A j \in 1..k : i < j => ItemPos(vs[i].n) < ItemPos(vs[j].n)
         /\ DOMAIN fmt[n] \cap CommaNames = {"comma_" \o ToString(i) : i \in 0..(k - 2)}
         /\ \A i \in 0..(k - 2) :
              \E j \in (spans[n]["comma_" \o ToString(i)][1] + 1)
                       ..spans[n]["comma_" \o ToString(i)][2] :
                /\ src[j] = ","
                /\ ItemPos(vs[i + 1].n) < j /\ j < ItemPos(vs[i + 2].n)
         /\ Len(attempts) = (IF k > 0 THEN 1 ELSE 0)
         /\ (k > 0 /\ TrailingComma) =>
               "extracomma" \in DOMAIN fmt[n] /\ fmt[n]["extracomma"][1] = ","
         /\ ~(k > 0 /\ TrailingComma) => "extracomma" \notin DOMAIN fmt[n]

C12_Witness ==
  /\ status = "ok" /\ input.case = "call_star"
  /\ {"comma_0", "comma_1", "comma_2", "starargs_prefix", "kwargs_prefix"} \subseteq DOMAIN fmt[3]

\* The kinds whose recipe walks a list with separators, and the list.
SepKinds == {"List", "ExtSlice", "BoolOp", "ClassDef", "ImportFrom", "Global", "Nonlocal"}

SepList(n) ==
  CASE Kind(n) = "List" -> nodes[n].elts
    [] Kind(n) = "ExtSlice" -> nodes[n].dims
    [] Kind(n) = "BoolOp" -> nodes[n].values
    [] Kind(n) = "ClassDef" -> nodes[n].bases
    [] Kind(n) \in {"ImportFrom", "Global", "Nonlocal"} -> nodes[n].names

\* Index in calls.log of the visit of n and of its end (0 while there is none).
VisitAt(n) ==
  LET s == {i \in 1..Len(calls.log) : calls.log[i].op = "visit" /\ calls.log[i].n = n}
  IN IF s = {} THEN 0 ELSE MinOf(s)

LeaveAt(n) ==
  LET s == {i \in 1..Len(calls.log) : calls.log[i].op = "leave" /\ calls.log[i].n = n}
  IN IF s = {} THEN 0 ELSE MinOf(s)

\* The separators matched for the list of n: recorded separator attributes,
\* commas inside the 'names' attribute, and bare ',' tokens of the recipe.
Separators(n) ==
  LET recorded ==
        {a \in DOMAIN fmt[n] :
           \E i \in 0..8 : a \in {"comma_" \o ToString(i), "dim_sep_" \o ToString(i),
                                  "op_" \o ToString(i)}}
      in_names ==
        IF "names" \in DOMAIN fmt[n] /\ Kind(n) \in {"Global", "Nonlocal"}
          THEN {i \in 1..Len(fmt[n]["names"]) : fmt[n]["names"][i] = ","}
          ELSE {}
      bare ==
        IF Kind(n) \in {"ClassDef", "ImportFrom"}
          THEN {i \in (VisitAt(n) + 1)..(LeaveAt(n) - 1) :
                  calls.log[i].op = "token" /\ calls.log[i].name = ","}
          ELSE {}
  IN Cardinality(recorded) + Cardinality(in_names) + Cardinality(bare)

\* C13: a valid source whose tree has a separated list of n >= 1 elements is
\* annotated with exactly n-1 separators matched for that list, whatever the
\* list holds, repeated equal elements included.
C13_Separators ==
  (Valid /\ status # "running" /\ \E n \in 1..Len(nodes) : Kind(n) \in SepKinds) =>
    /\ status = "ok"
    /\ \A n \in 1..Len(nodes) :
         (Kind(n) \in SepKinds /\ Len(SepList(n)) >= 1) =>
           Separators(n) = Len(SepList(n)) - 1

\* C14: a visited node has indent and indent_diff before anything else is
\* recorded on it, and a statement that starts its own line inside a block
\* body (a try body included) records the leading whitespace of that line.
C14_IndentContext ==
  /\ \A n \in 1..Len(nodes) :
       fmt[n] # EmptyF => {"indent", "indent_diff"} \subseteq DOMAIN fmt[n]
  /\ status = "ok" =>
       \A n \in Blocks : \A c \in BodyLines(n) :
         fmt[c]["indent"] = LineIndent(nodes[c].lineno)

IndentMsg ==
  "Indent detection failed; inner indentation level is not more than the outer indentation."

\* The children of block a of n are all written on n's header line.
OneLine(n, a) ==
  /\ nodes[n][a] # <<>>
  /\ \A i \in 1..Len(nodes[n][a]) : nodes[nodes[n][a][i]].lineno = nodes[n].lineno

\* C15: a block whose children are on the header's line, however many, is
\* visited with the indent context unchanged, is not validated (no
\* indentation failure) and records no block suffix.
C15_SameLineBlock ==
  \A n \in Blocks : \A a \in {"body", "orelse", "finalbody"} :
    OneLine(n, a) =>
      /\ ~(status = "AnnotationError" /\ err.msg = IndentMsg)
      /\ ("block_suffix_" \o a) \notin DOMAIN fmt[n]
      /\ \A i \in 1..Len(nodes[n][a]) :
           Visited(nodes[n][a][i]) => fmt[nodes[n][a][i]]["indent"] = fmt[n]["indent"]
      /\ status = "ok" => \A i \in 1..Len(nodes[n][a]) : Visited(nodes[n][a][i])

\* The blocks entered with a tracked indentation level and not yet left,
\* innermost first, as indices of their pending dedent in stk.
OpenBlocks == {i \in 1..Len(stk) : stk[i].op = "dedent"}

\* After a successful pass the indent context is empty; inside a tracked
\* block _indent is the block node's indent followed by _indent_diff.
IndentContext ==
  /\ status = "ok" => indent = <<>> /\ indent_diff = <<>>
  /\ IF OpenBlocks = {} THEN indent = <<>> /\ indent_diff = <<>>
     ELSE indent = fmt[stk[MinOf(OpenBlocks)].n]["indent"] \o indent_diff

\* C16: when the children of a tracked block are done, the trailing blank
\* lines are captured while the children's indent is still the current one
\* and stored as block_suffix_<attribute> on the block node, and the step
\* ends with _indent and _indent_diff back at the values the block node was
\* visited with; so the context is empty after a successful pass and is
\* parent indent + _indent_diff inside a block.
C16_BlockSuffix ==
  /\ []IndentContext
  /\ [][(Running /\ Top.op = "dedent") =>
          LET n == Top.n
              children == nodes[n][Top.name]
          IN /\ \A i \in 1..Len(children) : fmt[children[i]]["indent"] = indent
             /\ StrictExt(fmt[n]["indent"], indent)
             /\ fmt'[n]["block_suffix_" \o Top.name] = Slice(src, pos + 1, pos')
             /\ \A j \in (pos + 1)..pos' : src[j] \in {" ", "\n"}
             /\ indent' = fmt[n]["indent"]
             /\ indent_diff' = fmt[n]["indent_diff"]
             /\ status' = "running"]_vars

\* A block nested in a block has been left.
C16_Witness ==
  /\ status = "ok" /\ input.case = "if_try" /\ input.w = 2
  /\ "block_suffix_finalbody" \in DOMAIN fmt[4]
  /\ "block_suffix_body" \in DOMAIN fmt[2]

\* The lexemes after the cursor that are names, and those that are tokens.
NamesAhead == {j \in (pos + 1)..Len(src) : src[j] \notin {" ", "\n"} \cup OpToks
                                              \cup NumberToks \cup StringToks}

TokensAhead == {j \in (pos + 1)..Len(src) : src[j] # " "}

\* C17: resolving an alternative or a with item leaves the cursor, the
\* bracket scopes, the indent context, the ancestor stack and every node's
\* formatting as they were; the one write is the flag on the nested node,
\* set iff that node has the kind asked for and the upcoming token is the
\* one looked for.
C17_ResolversPure ==
  [][(Running /\ Top.op \in {"If_orelse", "With_body"}) =>
       LET n == Top.n
           elif == /\ Len(nodes[n].orelse) = 1 /\ Kind(nodes[n].orelse[1]) = "If"
                   /\ NamesAhead # {} /\ src[MinOf(NamesAhead)] = "elif"
           comma == /\ Len(nodes[n].body) = 1 /\ Kind(nodes[n].body[1]) = "With"
                    /\ TokensAhead # {} /\ src[MinOf(TokensAhead)] = ","
       IN /\ pos' = pos /\ hints' = hints /\ parens' = parens
          /\ indent' = indent /\ indent_diff' = indent_diff
          /\ stack' = stack /\ fmt' = fmt /\ deps_src' = deps_src
          /\ nodes' = nodes
          /\ IF Top.op = "If_orelse"
               THEN /\ is_elif' = is_elif \cup (IF elif THEN {nodes[n].orelse[1]} ELSE {})
                    /\ is_continued' = is_continued
               ELSE /\ is_continued' = is_continued
                                       \cup (IF comma THEN {nodes[n].body[1]} ELSE {})
                    /\ is_elif' = is_elif]_vars

\* Both answers of a resolver have been given: no for 'else: if', and the
\* pass went on.
C17_Witness ==
  /\ status = "ok" /\ input.case = "if_else_if"
  /\ is_elif = {} /\ "open_else" \in DOMAIN fmt[2]

\* The node kinds whose visit method is decorated @expression.
ExpressionKinds == {"Name", "Num", "Str", "BoolOp", "List", "Call", "Subscript"}

Event(op, n, name) == [op |-> op, n |-> n, name |-> name]

EventsOf(op, n) == {x \in 1..Len(calls.log) : calls.log[x].op = op /\ calls.log[x].n = n}

\* C18: the visit of an expression node enters the scope, parses the prefix,
\* runs the node's own slots, parses the suffix on the same line and leaves
\* the scope, in that order and once each; the visit of a node of any other
\* kind neither enters nor leaves a scope.
C18_ExpressionWrapper ==
  status = "ok" =>
    \A n \in 1..Len(nodes) : Visited(n) =>
      LET i == VisitAt(n)
          j == LeaveAt(n)
          L == calls.log
      IN /\ EventsOf("visit", n) = {i} /\ EventsOf("leave", n) = {j} /\ i < j
         /\ IF Kind(n) \in ExpressionKinds
              THEN /\ EventsOf("scope_enter", n) = {i + 1}
                   /\ L[i + 2] = Event("attr", n, "prefix")
                   /\ i + 2 < j - 2
                   /\ \A x \in (i + 3)..(j - 3) :
                        L[x] \notin {Event("attr", n, "prefix"), Event("attr", n, "suffix")}
                   /\ L[j - 2] = Event("attr", n, "suffix")
                   /\ EventsOf("scope_exit", n) = {j - 1}
                   /\ \A x \in (spans[n]["suffix"][1] + 1)..spans[n]["suffix"][2] :
                        src[x] # "\n"
              ELSE EventsOf("scope_enter", n) = {} /\ EventsOf("scope_exit", n) = {}

\* An expression written in redundant parentheses has been annotated: its
\* scope took the parentheses.
C18_Witness ==
  /\ status = "ok" /\ input.case = "index" /\ input.k = 1
  /\ fmt[6]["prefix"] = <<"(">> /\ calls.scope_in = 3 /\ calls.scope_out = 3

Range(s) == {s[i] : i \in 1..Len(s)}

\* The child nodes of node m in the tree handed to the annotator.
Children(m) ==
  LET r == Case(input).nodes[m]
  IN (CASE r.kind = "Module" -> Range(r.body)
        [] r.kind = "If" -> {r.test} \cup Range(r.body) \cup Range(r.orelse)
        [] r.kind = "While" -> {r.test} \cup Range(r.body) \cup Range(r.orelse)
        [] r.kind = "For" -> {r.target, r.iter} \cup Range(r.body) \cup Range(r.orelse)
        [] r.kind = "With" -> {r.context_expr, r.optional_vars} \cup Range(r.body)
        [] r.kind = "Try" -> Range(r.body) \cup Range(r.handlers) \cup Range(r.orelse)
                             \cup Range(r.finalbody)
        [] r.kind = "ExceptHandler" -> {r.type} \cup Range(r.body)
        [] r.kind = "ClassDef" -> Range(r.decorator_list) \cup Range(r.bases) \cup Range(r.body)
        [] r.kind = "FunctionDef" -> Range(r.decorator_list) \cup {r.args, r.returns}
                                     \cup Range(r.body)
        [] r.kind = "arguments" -> Range(r.args) \cup Range(r.defaults) \cup {r.vararg, r.kwarg}
        [] r.kind = "arg" -> {r.annotation}
        [] r.kind \in {"Expr", "keyword", "Index"} -> {r.value}
        [] r.kind = "ImportFrom" -> Range(r.names)
        [] r.kind = "BoolOp" -> Range(r.values)
        [] r.kind = "List" -> Range(r.elts)
        [] r.kind = "Call" -> {r.func, r.starargs, r.kwargs} \cup Range(r.args)
                              \cup Range(r.keywords)
        [] r.kind = "Subscript" -> {r.value, r.slice}
        [] r.kind = "ExtSlice" -> Range(r.dims)
        [] r.kind = "Slice" -> {r.lower, r.upper, r.step}
        [] OTHER -> {}) \ {0}

ParentOf(c) ==
  IF \E m \in 1..Len(nodes) : c \in Children(m)
    THEN CHOOSE m \in 1..Len(nodes) : c \in Children(m)
    ELSE 0

RECURSIVE PathTo(_)
PathTo(n) == IF ParentOf(n) = 0 THEN <<n>> ELSE Append(PathTo(ParentOf(n)), n)

\* The ancestor stack is the path from the root to the node whose recipe is
\* running; a node about to be visited is not on it yet.
AncestorStack ==
  /\ (Running /\ Top.op \notin {"visit", "token"}) => stack = PathTo(Top.n)
  /\ (Running /\ Top.op = "visit") =>
       stack = (IF ParentOf(Top.n) = 0 THEN <<>> ELSE PathTo(ParentOf(Top.n)))
  /\ \A i \in 1..Len(stack) : \A j \in 1..Len(stack) : i # j => stack[i] # stack[j]
  /\ status = "ok" => stack = <<>>

\* An Index or Slice has its own brackets iff its parent is no ExtSlice; an
\* ExtSlice matched one '[' and one ']' for all its dimensions.
OwnBrackets ==
  status = "ok" =>
    \A n \in 1..Len(nodes) : Visited(n) =>
      /\ Kind(n) \in {"Index", "Slice"} =>
           IF Kind(ParentOf(n)) # "ExtSlice"
             THEN {"index_open", "index_close"} \subseteq DOMAIN fmt[n]
             ELSE {"index_open", "index_close"} \cap DOMAIN fmt[n] = {}
      /\ Kind(n) = "ExtSlice" =>
           \A t \in {"[", "]"} :
             Cardinality({x \in (VisitAt(n) + 1)..(LeaveAt(n) - 1) :
                            calls.log[x] = Event("token", 0, t)}) = 1

\* C19: while the slots of a node run the ancestor stack is the root-to-node
\* path, each visit pushing and popping its node once, and the stack is
\* empty after a successful pass; Index and Slice take their own bracket
\* pair iff their parent on the stack is not an ExtSlice, which takes one
\* pair for all its dimensions.
C19_AncestorStack ==
  /\ [](AncestorStack /\ OwnBrackets)
  /\ [][(Running /\ Top.op \in {"index_open", "index_close"}) =>
          ((stk' # <<>> /\ Head(stk').op = "attr" /\ Head(stk').n = Top.n
            /\ Head(stk').name = Top.op)
           <=> Kind(ParentOf(Top.n)) # "ExtSlice")]_vars

\* A subscript of two dimensions has been annotated: its dimensions took no
\* bracket of their own.
C19_Witness ==
  /\ status = "ok" /\ input.case = "extslice" /\ stack = <<>>
  /\ {"index_open", "index_close"} \cap (DOMAIN fmt[6] \cup DOMAIN fmt[9]) = {}
  /\ "dim_sep_0" \in DOMAIN fmt[5]

\* The semantic fields of node n that are written as text, each with the
\* lexemes of its value.
SemanticTexts(n) ==
  CASE Kind(n) \in {"ClassDef", "FunctionDef"} -> {<<"name", {nodes[n].name}>>}
    [] Kind(n) = "alias" -> {<<"name", Range(nodes[n].name)>>}
    [] Kind(n) = "ImportFrom" -> {<<"module", Range(nodes[n].module)>>}
    [] Kind(n) \in {"Global", "Nonlocal"} -> {<<"names", Range(nodes[n].names)>>}
    [] OTHER -> {}

\* C20: an attribute whose recorded text holds the value of a semantic field
\* of its node has the snapshot '<field>__src' of that field, equal to the
\* value at annotation time; so has the 'names' attribute of Global and
\* Nonlocal.
C20_EmbeddedFieldSnapshot ==
  (status = "ok" /\ edited = {}) =>
    \A n \in 1..Len(nodes) : \A a \in DOMAIN fmt[n] \ {"indent", "indent_diff"} :
      \A sf \in SemanticTexts(n) :
        (sf[2] \cap Range(fmt[n][a]) # {}) =>
          /\ (sf[1] \o "__src") \in DOMAIN deps_src[n]
          /\ deps_src[n][sf[1] \o "__src"] = nodes[n][sf[1]]

\* The parts of a recipe that are not literal tokens: the whitespace parsers
\* and the callables that read a token of a type.
Parsers == {WS, WS_ONELINE, WS_0, NUMBER, STR}

\* The literal tokens of a recipe, in recipe order.
Literals(attr_vals) == SelectSeq(attr_vals, LAMBDA v : v \notin Parsers)

\* A default with its blanks and line breaks removed.
Inked(default) == SelectSeq(default, LAMBDA x : x \notin {" ", "\n"})

\* The clause-opening slots and the keyword each one matches.
ClauseKeyword(n, name) ==
  CASE Kind(n) = "Try" /\ name = "open_try" -> "try"
    [] Kind(n) = "Try" /\ name = "open_else" -> "else"
    [] Kind(n) = "Try" /\ name = "open_finally" -> "finally"
    [] Kind(n) \in {"While", "For"} /\ name = "else" -> "else"
    [] OTHER -> ""

\* C21: every slot that declares a default renders its recipe in it: the
\* default holds the literal tokens of the slot's attr_vals, in recipe order,
\* with nothing but whitespace between them; the default of a clause-opening
\* slot ('else' of While and For, open_try / open_else / open_finally of Try)
\* is its keyword, a colon and one newline.
C21_DefaultRendersRecipe ==
  (Running /\ Top.op = "attr" /\ Top.default # <<>>) =>
    /\ (\A v \in Range(Top.vals) : v \notin {NUMBER, STR}) =>
         Inked(Top.default) = Literals(Top.vals)
    /\ ClauseKeyword(Top.n, Top.name) # "" =>
         Top.default = <<ClauseKeyword(Top.n, Top.name), ":", "\n">>

====
